---- MODULE Spec2Model ----
(***************************************************************************)
(* Whale-discovery scripts of ethixxtradebot/scripts/python, modelled as   *)
(* state machines.  Scores (floats in [0,1] in the source) are integers in *)
(* thousandths: 0.45 is 450.  Times are integer seconds.                   *)
(*                                                                         *)
(* Each script is a program of its own, so each has a specification of its *)
(* own over the variables it owns; the variables of the other scripts stay *)
(* at their idle values.                                                   *)
(*   SpecStore   record_whale_discovery (ultimate_whale_discovery.py) and  *)
(*               process_production_whale_discovery                        *)
(*               (production_whale_discovery.py)                           *)
(***************************************************************************)
EXTENDS Integers, Sequences, FiniteSets, TLC

VARIABLES
    \* ---- discovery store (ultimate_whale_discovery / production_whale_discovery)
    script,             \* which script this run is: "ultimate" or "production"
    discovered_whales,  \* self.discovered_whales: dict wallet address -> record
    metrics,            \* self.metrics: whales_discovered, auto_added
    tracked_wallets,    \* config['wallets'] of config/tracked-wallets.json (addresses)
    call_log,           \* the record calls made so far, with what each one did
    \* ---- rate-limit governor and supervisor (ultimate_whale_discovery_safe)
    now,                      \* time.time(), seconds
    connection_attempts,      \* self.connection_attempts: list of timestamps
    last_connection_attempt,  \* self.last_connection_attempt
    subscription_attempts,    \* self.subscription_attempts: list of timestamps
    rate_limit_detected,      \* self.rate_limit_detected
    consecutive_failures,     \* self.consecutive_failures
    safe_metrics,             \* messages_received, rate_limit_events, connection_failures
    safe_pc,                  \* where safe_single_endpoint_strategy stands
    safe_idx,                 \* index of the endpoint the for loop is at (1..2)
    safe_runs,                \* calls of start_safe_discovery so far
    safe_wait,                \* seconds the pending asyncio.sleep will take
    safe_sub,                 \* index of the subscription being sent (1..2)
    attempt_log,              \* every can_attempt_connection call: time, verdict
    connect_log,              \* every websockets.connect call: time, endpoint
    gov_pending,              \* callers between an allowed check and its record
    auth_log,                 \* times at which an auth message went out on a socket
    \* ---- websocket_connection_handler (ultimate_whale_discovery), per endpoint
    running,                  \* self.running
    h_pc,                     \* where each endpoint's handler stands
    retry_count,              \* each handler's local retry_count
    h_exit,                   \* why a handler left its loop ("none" while in it)
    ws_connections,           \* keys of self.ws_connections
    h_frames,                 \* frames read so far (metrics['messages_received'])
    h_forbidden,              \* endpoints that answered a connect with 403
    h_after403,               \* per endpoint: who called connect after its 403
    monitor_pc,               \* status_monitor task: running, failed
    coordinator,              \* start_real_discovery: gathering, returned, crashed
    h_after_failure,          \* endpoints that called connect after a task failed
    h_wait,                   \* endpoint -> wait_time of its latest asyncio.sleep
    h_sub_errors,             \* endpoints whose latest attempt_subscriptions logged an error
    \* ---- processing queue (production_whale_discovery)
    q_phase,                  \* initialize(): connecting, processing, stopped
    q_running,                \* self.running
    processing_queue,         \* self.processing_queue, oldest item first
    prod_pc,                  \* where each source's handle_production_messages stands
    prod_item,                \* the item a handler is putting
    worker_pc,                \* where process_production_queue stands
    worker_item,              \* the item the worker took
    tokens_processed,         \* metrics['tokens_processed']
    q_frames,                 \* frames read by the handlers so far
    \* ---- calculate_whale_confidence (ultimate_whale_discovery)
    sc_pc,                    \* input (token_data chosen), scored
    sc_input,                 \* the token_data passed in
    sc_raw,                   \* score before the return statement
    sc_score,                 \* the value returned
    sc_prev,                  \* raw sum and value of the call before
    \* ---- listen_for_real_data on one connection (ultimate_whale_discovery)
    l_pc,                     \* listening, ended (off while not run)
    l_read,                   \* the frames read so far, in order
    l_raised,                 \* what parse_real_message raised into the loop
    \* ---- two tasks calling record_whale_discovery (ultimate_whale_discovery)
    rec_pc,                   \* task -> ready, checked_new, checked_seen, done (off)
    rec_arg,                  \* task -> the wallet, token and confidence it records
    \* ---- one top-level JSON array through parse_real_message (ultimate_whale_discovery)
    arr_pc,                   \* input, array, short, ignored, scored (off)
    arr_in,                   \* the array: its length, its text fields, its numeric block
    arr_out,                  \* token_data's financial fields and the confidence
    \* ---- process_final_queue (final_production_whale_discovery)
    fin_whales,               \* self.discovered_whales: wallet -> record
    fin_metrics,              \* self.metrics: whales_discovered, auto_added
    fin_tracked,              \* addresses in config/tracked-wallets.json
    fin_log,                  \* the queue items processed so far, with what was done
    \* ---- process_queue and the thread pool (python_whale_discovery)
    py_pc,                    \* process_queue: idle, batch (off)
    py_batch,                 \* the transactions of the batch being processed
    py_thread,                \* per transaction: its worker's position and the value it read
    py_next,                  \* index of the future process_queue waits for next
    py_base,                  \* whales_discovered when the batch was taken
    py_taken,                 \* transactions taken off the queue so far
    py_metrics,               \* self.metrics: whales_discovered
    py_whales,                \* self.discovered_whales: wallet -> score, transactions
    py_tracked,               \* addresses in config/tracked-wallets.json
    py_log,                   \* the transactions handed to handle_discovered_whale
    py_errors,                \* exceptions process_queue caught and logged
    \* ---- the signal handlers (axiom_master_trading_system)
    live_signals,             \* self.live_signals: the source of each signal, oldest first
    ms_metrics,               \* cluster7_signals, hyperliquid_signals, eucalyptus_signals
    \* ---- cluster7_goldmine_with_refresh (auto_refresh_trading_system)
    ar_pc,                    \* connect, refreshing, subscribing, processing (off)
    ar_retry,                 \* retry_count of connect_cluster7_with_retries
    ar_slept,                 \* half seconds slept since the last websockets.connect
    ar_log,                   \* every websockets.connect: its outcome, the sleep before it
    ar_signals,               \* metrics['cluster7_signals']
    \* ---- shutdown (ultimate_whale_discovery)
    sd_pc,                    \* idle, closing, complete, raised (off)
    sd_current,               \* the endpoint whose ws.close() is awaited
    sd_size,                  \* len(ws_connections) when the iterator was made
    sd_visited,               \* the endpoints the iterator has handed out
    sd_saved                  \* save_discoveries was called

storeVars == <<script, discovered_whales, metrics, tracked_wallets, call_log>>

govVars == <<now, connection_attempts, last_connection_attempt,
             subscription_attempts, rate_limit_detected, consecutive_failures,
             safe_metrics, safe_pc, safe_idx, safe_runs, safe_wait, safe_sub,
             attempt_log, connect_log, gov_pending, auth_log>>

handlerVars == <<running, h_pc, retry_count, h_exit, ws_connections, h_frames,
                 h_forbidden, h_after403, monitor_pc, coordinator,
                 h_after_failure, h_wait, h_sub_errors>>

queueVars == <<q_phase, q_running, processing_queue, prod_pc, prod_item,
               worker_pc, worker_item, tokens_processed, q_frames>>

scorerVars == <<sc_pc, sc_input, sc_raw, sc_score, sc_prev>>

listenVars == <<l_pc, l_read, l_raised>>

recordVars == <<rec_pc, rec_arg>>

arrayVars == <<arr_pc, arr_in, arr_out>>

finalVars == <<fin_whales, fin_metrics, fin_tracked, fin_log>>

pyVars == <<py_pc, py_batch, py_thread, py_next, py_base, py_taken, py_metrics,
           py_whales, py_tracked, py_log, py_errors>>

masterVars == <<live_signals, ms_metrics>>

refreshVars == <<ar_pc, ar_retry, ar_slept, ar_log, ar_signals>>

shutVars == <<sd_pc, sd_current, sd_size, sd_visited, sd_saved>>

\* the first eight components together
coreVars == <<storeVars, govVars, handlerVars, queueVars, scorerVars, listenVars,
              recordVars, arrayVars>>

\* the components of the other scripts
laterVars == <<finalVars, pyVars, masterVars, refreshVars, shutVars>>

notFinal == <<coreVars, pyVars, masterVars, refreshVars, shutVars>>
notPy == <<coreVars, finalVars, masterVars, refreshVars, shutVars>>
notMaster == <<coreVars, finalVars, pyVars, refreshVars, shutVars>>
notRefresh == <<coreVars, finalVars, pyVars, masterVars, shutVars>>
notShutdownHandler == <<storeVars, govVars, queueVars, scorerVars, listenVars,
    recordVars, arrayVars, finalVars, pyVars, masterVars, refreshVars>>

vars == <<coreVars, laterVars>>

\* everything but one component's variables
notStore == <<govVars, handlerVars, queueVars, scorerVars, listenVars,
    recordVars, arrayVars, laterVars>>
notGov == <<storeVars, handlerVars, queueVars, scorerVars, listenVars,
    recordVars, arrayVars, laterVars>>
notHandler == <<storeVars, govVars, queueVars, scorerVars, listenVars,
    recordVars, arrayVars, laterVars>>
notQueue == <<storeVars, govVars, handlerVars, scorerVars, listenVars,
    recordVars, arrayVars, laterVars>>
notScorer == <<storeVars, govVars, handlerVars, queueVars, listenVars,
    recordVars, arrayVars, laterVars>>
notStoreRecord == <<govVars, handlerVars, queueVars, scorerVars, listenVars,
    arrayVars, laterVars>>
notStoreArray == <<govVars, handlerVars, queueVars, scorerVars, listenVars,
    recordVars, laterVars>>
notStoreListen == <<govVars, handlerVars, queueVars, scorerVars,
    recordVars, arrayVars, laterVars>>

(***************************************************************************)
(* Input domains and bounds                                                *)
(***************************************************************************)
Wallets == {"W1", "W2"}
Tokens == {"T1", "T2"}
\* confidence values fed to the store, in thousandths
Scores == {200, 300, 450, 500, 700, 800}
\* number of record calls in one run
MaxCalls == 3

Max(a, b) == IF a >= b THEN a ELSE b
Min(a, b) == IF a <= b THEN a ELSE b

RECURSIVE SeqMax(_)
SeqMax(s) == IF Len(s) = 0 THEN 0
             ELSE Max(Head(s), SeqMax(Tail(s)))

(***************************************************************************)
(* Discovery store                                                         *)
(***************************************************************************)
\* self.config['auto_add_threshold'] of production_whale_discovery (0.45)
auto_add_threshold == 450
\* the literal of "if confidence > 0.7" in record_whale_discovery
ultimate_auto_add_above == 700

\* WhaleDiscovery(...) as built by record_whale_discovery
WhaleDiscovery(whale_address, token, confidence) ==
    [whale_address |-> whale_address, token_ticker |-> token,
     confidence_score |-> confidence]

\* ProductionWhaleDiscovery(...) as built by parse_production_token_array
ProductionWhaleDiscovery(wallet, token, confidence) ==
    [whale_address |-> wallet, token_ticker |-> token,
     confidence_score |-> confidence, auto_added |-> FALSE]

\* record_whale_discovery with the duplicate check dropped (used as a mutant)
record_whale_discovery_nodedup(dw, whale_address, confidence, token) ==
    [whales |-> [w \in DOMAIN dw \cup {whale_address} |->
                    IF w = whale_address
                    THEN WhaleDiscovery(whale_address, token, confidence)
                    ELSE dw[w]],
     created |-> TRUE,
     auto_add |-> confidence > ultimate_auto_add_above]

\* record_whale_discovery overwriting the stored score on every call (mutant)
record_whale_discovery_overwrite(dw, whale_address, confidence, token) ==
    IF whale_address \in DOMAIN dw
    THEN [whales |-> [dw EXCEPT ![whale_address].confidence_score = confidence],
          created |-> FALSE, auto_add |-> FALSE]
    ELSE [whales |-> dw @@ (whale_address :>
                        WhaleDiscovery(whale_address, token, confidence)),
          created |-> TRUE,
          auto_add |-> confidence > ultimate_auto_add_above]

\* record_whale_discovery auto-adding on the update path as well (mutant)
record_whale_discovery_readd(dw, whale_address, confidence, token) ==
    IF whale_address \in DOMAIN dw
    THEN [whales |-> IF confidence > dw[whale_address].confidence_score
                     THEN [dw EXCEPT ![whale_address].confidence_score = confidence]
                     ELSE dw,
          created |-> FALSE,
          auto_add |-> confidence > ultimate_auto_add_above]
    ELSE [whales |-> dw @@ (whale_address :>
                        WhaleDiscovery(whale_address, token, confidence)),
          created |-> TRUE,
          auto_add |-> confidence > ultimate_auto_add_above]

\* record_whale_discovery: what the call does to the dict, whether it created
\* a record and whether it went on to auto_add_whale
record_whale_discovery(dw, whale_address, confidence, token) ==
    IF whale_address \in DOMAIN dw
    THEN [whales |-> IF confidence > dw[whale_address].confidence_score
                     THEN [dw EXCEPT ![whale_address].confidence_score = confidence]
                     ELSE dw,
          created |-> FALSE, auto_add |-> FALSE]
    ELSE [whales |-> dw @@ (whale_address :>
                        WhaleDiscovery(whale_address, token, confidence)),
          created |-> TRUE,
          auto_add |-> confidence > ultimate_auto_add_above]

\* process_production_whale_discovery, same shape; auto_add_production_whale
\* sets whale.auto_added on the stored object
process_production_whale_discovery(dw, wallet, confidence, token) ==
    IF wallet \in DOMAIN dw
    THEN [whales |-> IF confidence > dw[wallet].confidence_score
                     THEN [dw EXCEPT ![wallet].confidence_score = confidence]
                     ELSE dw,
          created |-> FALSE, auto_add |-> FALSE]
    ELSE [whales |-> dw @@ (wallet :>
                        [ProductionWhaleDiscovery(wallet, token, confidence)
                            EXCEPT !.auto_added = confidence >= auto_add_threshold]),
          created |-> TRUE,
          auto_add |-> confidence >= auto_add_threshold]

StoreInit ==
    /\ script \in {"ultimate", "production"}
    /\ discovered_whales = << >>
    /\ metrics = [whales_discovered |-> 0, auto_added |-> 0]
    /\ tracked_wallets = << >>
    /\ call_log = << >>

\* One call of the store's record operation.  io_ok: whether auto_add's file
\* write succeeded (its except branch logs and swallows a failure).
StoreUpdate(r, wallet, confidence, token, io_ok, counts_before_io) ==
    /\ discovered_whales' = r.whales
    /\ metrics' = [whales_discovered |->
                       metrics.whales_discovered + (IF r.created THEN 1 ELSE 0),
                   auto_added |->
                       metrics.auto_added +
                       (IF r.auto_add /\ (io_ok \/ counts_before_io) THEN 1 ELSE 0)]
    /\ tracked_wallets' = IF r.auto_add /\ io_ok
                          THEN Append(tracked_wallets, wallet)
                          ELSE tracked_wallets
    /\ call_log' = Append(call_log, [wallet |-> wallet, score |-> confidence,
                                     token |-> token,
                                     created |-> r.created,
                                     promoted |-> r.auto_add])
    /\ UNCHANGED script

\* the same call made on its own (nothing else of the program moves)
ApplyRecord(r, wallet, confidence, token, io_ok, counts_before_io) ==
    /\ StoreUpdate(r, wallet, confidence, token, io_ok, counts_before_io)
    /\ UNCHANGED notStore

RecordWhaleDiscovery ==
    /\ script = "ultimate"
    /\ Len(call_log) < MaxCalls
    /\ \E w \in Wallets, c \in Scores, t \in Tokens, io_ok \in BOOLEAN :
          ApplyRecord(record_whale_discovery(discovered_whales, w, c, t),
                      w, c, t, io_ok, FALSE)

ProcessProductionWhaleDiscovery ==
    /\ script = "production"
    /\ Len(call_log) < MaxCalls
    /\ \E w \in Wallets, c \in Scores, t \in Tokens, io_ok \in BOOLEAN :
          ApplyRecord(process_production_whale_discovery(discovered_whales, w, c, t),
                      w, c, t, io_ok, TRUE)

StoreNext == RecordWhaleDiscovery \/ ProcessProductionWhaleDiscovery

\* the store's variables while another script is the one running
StoreIdle ==
    /\ script = "none"
    /\ discovered_whales = << >>
    /\ metrics = [whales_discovered |-> 0, auto_added |-> 0]
    /\ tracked_wallets = << >>
    /\ call_log = << >>


(***************************************************************************)
(* Rate-limit governor (ultimate_whale_discovery_safe.py)                  *)
(***************************************************************************)
\* self.rate_limits
connection_attempts_per_minute == 3
min_connection_interval == 30
subscription_requests_per_minute == 5
backoff_multiplier == 2
max_backoff == 300
\* the 60 of "now - t < 60" (attempts older than a minute are dropped)
rate_window == 60
\* timeout=20 of asyncio.wait_for(websockets.connect(...))
connect_timeout == 20
\* asyncio.sleep(2) between subscriptions
subscription_delay == 2
\* self.rate_limits['auth_requests_per_minute']
auth_requests_per_minute == 5
\* self.rate_limits['min_auth_interval']
min_auth_interval == 120

\* time.time() when the object is built (last_connection_attempt starts at 0,
\* so the first check sees an interval far above the minimum)
StartTime == 100
\* how far past StartTime the clock runs
Horizon == 120
\* can_attempt_connection calls logged in one run of the governor harness
MaxAttempts == 4
\* calls of start_safe_discovery on one object
MaxRuns == 2
\* how far past StartTime the clock may be moved by waiting for a frame or
\* between two runs of the strategy (its sleeps move it regardless)
SafeHorizon == 40
\* frames received in one run of the script
MaxSafeMessages == 1
\* seconds that may pass between two steps
TickSteps == {10, 30}
\* HTTP statuses a rejected handshake carries
Statuses == {401, 403, 429, 500}

RECURSIVE Pow(_, _)
Pow(b, n) == IF n = 0 THEN 1 ELSE b * Pow(b, n - 1)

\* [t for t in attempts if now - t < 60]
Recent(attempts, t) == SelectSeq(attempts, LAMBDA x : t - x < rate_window)

\* can_attempt_connection without the minimum-interval check (mutant)
can_attempt_connection_nointerval(t, attempts, last, detected) ==
    LET pruned == Recent(attempts, t) IN
    IF Len(pruned) >= connection_attempts_per_minute
    THEN [ok |-> FALSE, reason |-> "quota", remaining |-> 0, attempts |-> pruned]
    ELSE IF detected
    THEN [ok |-> FALSE, reason |-> "cooldown", remaining |-> 0, attempts |-> pruned]
    ELSE [ok |-> TRUE, reason |-> "safe", remaining |-> 0, attempts |-> pruned]

\* can_attempt_connection: prunes the window, then quota, interval, cooldown.
\* "remaining" is the number of seconds the reason string carries (only the
\* interval branch names one).
can_attempt_connection(t, attempts, last, detected) ==
    LET pruned == Recent(attempts, t) IN
    IF Len(pruned) >= connection_attempts_per_minute
    THEN [ok |-> FALSE, reason |-> "quota", remaining |-> 0, attempts |-> pruned]
    ELSE IF t - last < min_connection_interval
    THEN [ok |-> FALSE, reason |-> "interval",
          remaining |-> min_connection_interval - (t - last), attempts |-> pruned]
    ELSE IF detected
    THEN [ok |-> FALSE, reason |-> "cooldown", remaining |-> 0, attempts |-> pruned]
    ELSE [ok |-> TRUE, reason |-> "safe", remaining |-> 0, attempts |-> pruned]

\* record_connection_attempt that records nothing (mutant)
record_connection_attempt_forgets(t, attempts, last) ==
    [attempts |-> attempts, last |-> last]

\* record_connection_attempt
record_connection_attempt(t, attempts, last) ==
    [attempts |-> Append(attempts, t), last |-> t]

\* handle_rate_limit_response(status_code) with the default response_text "":
\* of the five indicators only status_code == 429 can hold
handle_rate_limit_response(status_code, failures) ==
    IF status_code = 429
    THEN [limited |-> TRUE, failures |-> failures + 1,
          backoff_time |-> Min(Pow(backoff_multiplier, failures + 1), max_backoff)]
    ELSE [limited |-> FALSE, failures |-> failures, backoff_time |-> 0]

GovInit ==
    /\ now = StartTime
    /\ connection_attempts = << >>
    /\ last_connection_attempt = 0
    /\ subscription_attempts = << >>
    /\ rate_limit_detected = FALSE
    /\ consecutive_failures = 0
    /\ safe_metrics = [messages_received |-> 0, rate_limit_events |-> 0,
                       connection_failures |-> 0]
    /\ safe_pc = "idle"
    /\ safe_idx = 1
    /\ safe_runs = 0
    /\ safe_wait = 0
    /\ safe_sub = 1
    /\ attempt_log = << >>
    /\ connect_log = << >>
    /\ gov_pending = {}
    /\ auth_log = << >>

LogAttempt(r, task) ==
    attempt_log' = Append(attempt_log,
                          [time |-> now, allowed |-> r.ok, reason |-> r.reason,
                           remaining |-> r.remaining, task |-> task])

\* the callers of the governor when it is called directly
GovTasks == {"s1", "s2"}

\* a suspension point between the allowed check and the record (mutant)
awaits_before_record_yields(task) == TRUE

\* between "can_connect, reason = self.can_attempt_connection()" and
\* "self.record_connection_attempt()", the first statement of the awaited
\* connect_to_endpoint_safely, the caller passes no suspension point
awaits_before_record(task) == FALSE

(* ---- the governor called directly: check, and record when allowed, as     *)
(* safe_single_endpoint_strategy and connect_to_endpoint_safely do together  *)
GovTick ==
    /\ \E d \in TickSteps : now + d <= StartTime + Horizon /\ now' = now + d
    /\ UNCHANGED <<connection_attempts, last_connection_attempt,
                   subscription_attempts, rate_limit_detected,
                   consecutive_failures, safe_metrics, safe_pc, safe_idx,
                   safe_runs, safe_wait, safe_sub, attempt_log, connect_log>>
    /\ UNCHANGED gov_pending
    /\ UNCHANGED auth_log
    /\ UNCHANGED notGov

TryAcquireConnection(task) ==
    IF task \in gov_pending
    THEN \* the caller resumes: self.record_connection_attempt()
         LET rec == record_connection_attempt(now, connection_attempts,
                                              last_connection_attempt)
         IN /\ connection_attempts' = rec.attempts
            /\ last_connection_attempt' = rec.last
            /\ gov_pending' = gov_pending \ {task}
            /\ UNCHANGED <<now, subscription_attempts, rate_limit_detected,
                           consecutive_failures, safe_metrics, safe_pc, safe_idx,
                           safe_runs, safe_wait, safe_sub, attempt_log,
                           connect_log>>
            /\ UNCHANGED auth_log
    /\ UNCHANGED notGov
    ELSE \* self.can_attempt_connection(), and the record when allowed
         /\ Len(attempt_log) < MaxAttempts
         /\ LET r == can_attempt_connection(now, connection_attempts,
                                            last_connection_attempt,
                                            rate_limit_detected)
                rec == record_connection_attempt(now, r.attempts,
                                                 last_connection_attempt)
                at_once == r.ok /\ ~awaits_before_record(task)
            IN /\ LogAttempt(r, task)
               /\ connection_attempts' = IF at_once THEN rec.attempts
                                         ELSE r.attempts
               /\ last_connection_attempt' = IF at_once THEN rec.last
                                             ELSE last_connection_attempt
               /\ gov_pending' = IF r.ok /\ ~at_once
                                 THEN gov_pending \cup {task} ELSE gov_pending
         /\ UNCHANGED <<now, subscription_attempts, rate_limit_detected,
                        consecutive_failures, safe_metrics, safe_pc, safe_idx,
                        safe_runs, safe_wait, safe_sub, connect_log>>
         /\ UNCHANGED auth_log
    /\ UNCHANGED notGov

GovNext == GovTick \/ \E task \in GovTasks : TryAcquireConnection(task)


(***************************************************************************)
(* safe_single_endpoint_strategy and connect_to_endpoint_safely            *)
(* (ultimate_whale_discovery_safe.py).  An asyncio.sleep(d) is one step    *)
(* that moves the clock by d: the strategy is the only task of the script. *)
(* safe_pc: idle, check (top of the for loop), connecting (permission      *)
(* given, websockets.connect called), cooldown (sleeping after a 429),     *)
(* backoff (sleeping before the next endpoint), subscribing, listening,    *)
(* done (the strategy returned).  self.running is True from                *)
(* start_safe_discovery on; only main's KeyboardInterrupt handler clears   *)
(* it, after the strategy is gone.                                         *)
(***************************************************************************)
\* the endpoints list of safe_single_endpoint_strategy
SafeEndpoints == <<"eucalyptus", "cluster7">>
\* subscriptions of attempt_safe_subscriptions
SafeSubscriptions == <<"auth", "join_new_pairs">>

\* backoff_time = min(60, 30 * (self.consecutive_failures + 1))
next_endpoint_backoff(failures) == Min(60, 30 * (failures + 1))

\* start_safe_discovery, on a fresh object or again after the strategy returned
StartSafeDiscovery ==
    /\ safe_pc \in {"idle", "done"}
    /\ safe_runs < MaxRuns
    /\ safe_runs' = safe_runs + 1
    /\ safe_idx' = 1
    /\ safe_pc' = "check"
    /\ UNCHANGED <<now, connection_attempts, last_connection_attempt,
                   subscription_attempts, rate_limit_detected,
                   consecutive_failures, safe_metrics, safe_wait, safe_sub,
                   attempt_log, connect_log>>
    /\ UNCHANGED gov_pending
    /\ UNCHANGED auth_log
    /\ UNCHANGED notGov

\* time passing while no strategy is running
SafeIdleTick ==
    /\ safe_pc \in {"idle", "done"}
    /\ \E d \in TickSteps : now + d <= StartTime + SafeHorizon /\ now' = now + d
    /\ UNCHANGED <<connection_attempts, last_connection_attempt,
                   subscription_attempts, rate_limit_detected,
                   consecutive_failures, safe_metrics, safe_pc, safe_idx,
                   safe_runs, safe_wait, safe_sub, attempt_log, connect_log>>
    /\ UNCHANGED gov_pending
    /\ UNCHANGED auth_log
    /\ UNCHANGED notGov

\* the for loop has run out of endpoints
SafeLoopEnds ==
    /\ safe_pc = "check"
    /\ safe_idx > Len(SafeEndpoints)
    /\ safe_pc' = "done"
    /\ UNCHANGED <<now, connection_attempts, last_connection_attempt,
                   subscription_attempts, rate_limit_detected,
                   consecutive_failures, safe_metrics, safe_idx, safe_runs,
                   safe_wait, safe_sub, attempt_log, connect_log>>
    /\ UNCHANGED gov_pending
    /\ UNCHANGED auth_log
    /\ UNCHANGED notGov

\* can_attempt_connection says no: wait min_connection_interval, then continue
SafeDenied ==
    /\ safe_pc = "check"
    /\ safe_idx <= Len(SafeEndpoints)
    /\ LET r == can_attempt_connection(now, connection_attempts,
                                       last_connection_attempt, rate_limit_detected)
       IN /\ ~r.ok
          /\ LogAttempt(r, "strategy")
          /\ connection_attempts' = r.attempts
    /\ safe_wait' = min_connection_interval
    /\ safe_pc' = "backoff"
    /\ UNCHANGED <<now, last_connection_attempt, subscription_attempts,
                   rate_limit_detected, consecutive_failures, safe_metrics,
                   safe_idx, safe_runs, safe_sub, connect_log>>
    /\ UNCHANGED gov_pending
    /\ UNCHANGED auth_log
    /\ UNCHANGED notGov

\* can_attempt_connection says yes: connect_to_endpoint_safely records the
\* attempt and calls websockets.connect
SafeAllowed ==
    /\ safe_pc = "check"
    /\ safe_idx <= Len(SafeEndpoints)
    /\ LET r == can_attempt_connection(now, connection_attempts,
                                       last_connection_attempt, rate_limit_detected)
           rec == record_connection_attempt(now, r.attempts, last_connection_attempt)
       IN /\ r.ok
          /\ LogAttempt(r, "strategy")
          /\ connection_attempts' = rec.attempts
          /\ last_connection_attempt' = rec.last
    /\ connect_log' = Append(connect_log,
                             [time |-> now, endpoint |-> SafeEndpoints[safe_idx]])
    /\ safe_pc' = "connecting"
    /\ UNCHANGED <<now, subscription_attempts, rate_limit_detected,
                   consecutive_failures, safe_metrics, safe_idx, safe_runs,
                   safe_wait, safe_sub>>
    /\ UNCHANGED gov_pending
    /\ UNCHANGED auth_log
    /\ UNCHANGED notGov

\* except asyncio.TimeoutError: the handshake did not complete in 20 s
SafeConnectTimeout ==
    /\ safe_pc = "connecting"
    /\ now' = now + connect_timeout
    /\ safe_metrics' = [safe_metrics EXCEPT !.connection_failures = @ + 1]
    /\ safe_wait' = next_endpoint_backoff(consecutive_failures)
    /\ safe_pc' = "backoff"
    /\ UNCHANGED <<connection_attempts, last_connection_attempt,
                   subscription_attempts, rate_limit_detected,
                   consecutive_failures, safe_idx, safe_runs, safe_sub,
                   attempt_log, connect_log>>
    /\ UNCHANGED gov_pending
    /\ UNCHANGED auth_log
    /\ UNCHANGED notGov

\* except InvalidStatusCode: handle_rate_limit_response(e.status_code)
SafeConnectStatus ==
    /\ safe_pc = "connecting"
    /\ \E status \in Statuses :
        LET h == handle_rate_limit_response(status, consecutive_failures) IN
        IF h.limited
        THEN /\ rate_limit_detected' = TRUE
             /\ consecutive_failures' = h.failures
             /\ safe_metrics' = [safe_metrics EXCEPT !.rate_limit_events = @ + 1]
             /\ safe_wait' = h.backoff_time
             /\ safe_pc' = "cooldown"
        ELSE /\ safe_wait' = next_endpoint_backoff(consecutive_failures)
             /\ safe_pc' = "backoff"
             /\ UNCHANGED <<rate_limit_detected, consecutive_failures, safe_metrics>>
    /\ UNCHANGED <<now, connection_attempts, last_connection_attempt,
                   subscription_attempts, safe_idx, safe_runs, safe_sub,
                   attempt_log, connect_log>>
    /\ UNCHANGED gov_pending
    /\ UNCHANGED auth_log
    /\ UNCHANGED notGov

\* the handler going on at once, without the sleep (mutant)
cooldown_over_nosleep(t, backoff_time) == t

\* if backoff_time > 0: await asyncio.sleep(backoff_time): the time at
\* which the handler goes on
cooldown_over(t, backoff_time) == t + backoff_time

\* await asyncio.sleep(backoff_time); self.rate_limit_detected = False
SafeCooldownOver ==
    /\ safe_pc = "cooldown"
    /\ now' = cooldown_over(now, safe_wait)
    /\ rate_limit_detected' = FALSE
    /\ safe_wait' = next_endpoint_backoff(consecutive_failures)
    /\ safe_pc' = "backoff"
    /\ UNCHANGED <<connection_attempts, last_connection_attempt,
                   subscription_attempts, consecutive_failures, safe_metrics,
                   safe_idx, safe_runs, safe_sub, attempt_log, connect_log>>
    /\ UNCHANGED gov_pending
    /\ UNCHANGED auth_log
    /\ UNCHANGED notGov

\* except Exception: any other connection error
SafeConnectError ==
    /\ safe_pc = "connecting"
    /\ safe_metrics' = [safe_metrics EXCEPT !.connection_failures = @ + 1]
    /\ safe_wait' = next_endpoint_backoff(consecutive_failures)
    /\ safe_pc' = "backoff"
    /\ UNCHANGED <<now, connection_attempts, last_connection_attempt,
                   subscription_attempts, rate_limit_detected,
                   consecutive_failures, safe_idx, safe_runs, safe_sub,
                   attempt_log, connect_log>>
    /\ UNCHANGED gov_pending
    /\ UNCHANGED auth_log
    /\ UNCHANGED notGov

\* the asyncio.sleep before the next endpoint is over
SafeBackoffOver ==
    /\ safe_pc = "backoff"
    /\ now' = now + safe_wait
    /\ safe_idx' = safe_idx + 1
    /\ safe_pc' = "check"
    /\ UNCHANGED <<connection_attempts, last_connection_attempt,
                   subscription_attempts, rate_limit_detected,
                   consecutive_failures, safe_metrics, safe_runs, safe_wait,
                   safe_sub, attempt_log, connect_log>>
    /\ UNCHANGED gov_pending
    /\ UNCHANGED auth_log
    /\ UNCHANGED notGov

\* websockets.connect returned a connection
SafeConnected ==
    /\ safe_pc = "connecting"
    /\ safe_sub' = 1
    /\ safe_pc' = "subscribing"
    /\ UNCHANGED <<now, connection_attempts, last_connection_attempt,
                   subscription_attempts, rate_limit_detected,
                   consecutive_failures, safe_metrics, safe_idx, safe_runs,
                   safe_wait, attempt_log, connect_log>>
    /\ UNCHANGED gov_pending
    /\ UNCHANGED auth_log
    /\ UNCHANGED notGov

\* one round of the loop of attempt_safe_subscriptions; send_ok: ws.send did
\* not raise (a raise is logged, the loop goes to the next subscription)
SafeSubscribe ==
    /\ safe_pc = "subscribing"
    /\ \E send_ok \in BOOLEAN :
        LET pruned == Recent(subscription_attempts, now) IN
        IF Len(pruned) >= subscription_requests_per_minute
        THEN \* break
             /\ subscription_attempts' = pruned
             /\ safe_pc' = "listening"
             /\ UNCHANGED <<now, safe_sub, auth_log>>
        ELSE /\ subscription_attempts' = IF send_ok THEN Append(pruned, now)
                                         ELSE pruned
             /\ auth_log' = IF send_ok /\ SafeSubscriptions[safe_sub] = "auth"
                             THEN Append(auth_log, now) ELSE auth_log
             /\ now' = IF send_ok THEN now + subscription_delay ELSE now
             /\ IF safe_sub < Len(SafeSubscriptions)
                THEN safe_sub' = safe_sub + 1 /\ safe_pc' = "subscribing"
                ELSE safe_sub' = safe_sub /\ safe_pc' = "listening"
    /\ UNCHANGED <<connection_attempts, last_connection_attempt,
                   rate_limit_detected, consecutive_failures, safe_metrics,
                   safe_idx, safe_runs, safe_wait, attempt_log, connect_log>>
    /\ UNCHANGED gov_pending
    /\ UNCHANGED notGov

\* listen_for_data_safely: one frame received
SafeMessage ==
    /\ safe_pc = "listening"
    /\ safe_metrics.messages_received < MaxSafeMessages
    /\ safe_metrics' = [safe_metrics EXCEPT !.messages_received = @ + 1]
    /\ consecutive_failures' = 0
    /\ rate_limit_detected' = FALSE
    /\ UNCHANGED <<now, connection_attempts, last_connection_attempt,
                   subscription_attempts, safe_pc, safe_idx, safe_runs,
                   safe_wait, safe_sub, attempt_log, connect_log>>
    /\ UNCHANGED gov_pending
    /\ UNCHANGED auth_log
    /\ UNCHANGED notGov

\* time passing while the read loop waits for a frame
SafeListenTick ==
    /\ safe_pc = "listening"
    /\ \E d \in TickSteps : now + d <= StartTime + SafeHorizon /\ now' = now + d
    /\ UNCHANGED <<connection_attempts, last_connection_attempt,
                   subscription_attempts, rate_limit_detected,
                   consecutive_failures, safe_metrics, safe_pc, safe_idx,
                   safe_runs, safe_wait, safe_sub, attempt_log, connect_log>>
    /\ UNCHANGED gov_pending
    /\ UNCHANGED auth_log
    /\ UNCHANGED notGov

\* the connection closes or the read loop fails: listen_for_data_safely
\* returns, connect_to_endpoint_safely returns True, the strategy breaks
SafeConnectionEnds ==
    /\ safe_pc = "listening"
    /\ safe_pc' = "done"
    /\ UNCHANGED <<now, connection_attempts, last_connection_attempt,
                   subscription_attempts, rate_limit_detected,
                   consecutive_failures, safe_metrics, safe_idx, safe_runs,
                   safe_wait, safe_sub, attempt_log, connect_log>>
    /\ UNCHANGED gov_pending
    /\ UNCHANGED auth_log
    /\ UNCHANGED notGov

SafeNext ==
    \/ StartSafeDiscovery
    \/ SafeIdleTick
    \/ SafeLoopEnds
    \/ SafeDenied
    \/ SafeAllowed
    \/ SafeConnectTimeout
    \/ SafeConnectStatus
    \/ SafeCooldownOver
    \/ SafeConnectError
    \/ SafeBackoffOver
    \/ SafeConnected
    \/ SafeSubscribe
    \/ SafeMessage
    \/ SafeListenTick
    \/ SafeConnectionEnds


(***************************************************************************)
(* websocket_connection_handler (ultimate_whale_discovery.py): one task per *)
(* endpoint, started together by asyncio.gather in start_real_discovery.   *)
(* h_pc: loop (the while test), connecting (websockets.connect called),    *)
(* subscribing, listening, sleeping (asyncio.sleep(wait_time)), exited.    *)
(***************************************************************************)
\* connect_cluster7, connect_eucalyptus
Endpoints == {"cluster7", "eucalyptus"}
\* max_retries = 10
max_retries == 10
\* frames read in one run
MaxFrames == 2

\* the InvalidStatusCode branch with 403 counted like any other status (mutant)
on_invalid_status_retry403(status_code, retries) ==
    [retry_count |-> retries + 1, break |-> FALSE, refresh |-> status_code = 401]

\* except websockets.exceptions.InvalidStatusCode: 401 refreshes the token
\* and counts a retry, 403 breaks out of the loop, any other counts a retry
on_invalid_status(status_code, retries) ==
    IF status_code = 401
    THEN [retry_count |-> retries + 1, break |-> FALSE, refresh |-> TRUE]
    ELSE IF status_code = 403
    THEN [retry_count |-> retries, break |-> TRUE, refresh |-> FALSE]
    ELSE [retry_count |-> retries + 1, break |-> FALSE, refresh |-> FALSE]

\* "await asyncio.sleep(2 ** retry_count)", the wait without its cap (mutant)
wait_time_nocap(retries) == Pow(2, retries)

\* wait_time = min(2 ** retry_count, 60)
wait_time(retries) == Min(Pow(2, retries), 60)

\* after a failed attempt: "if retry_count < max_retries and self.running"
\* sleeps, otherwise the while test comes next
AfterAttempt(retries) ==
    IF retries < max_retries /\ running THEN "sleeping" ELSE "loop"

\* asyncio.gather(*connection_tasks) letting a task's exception through to
\* start_real_discovery and main, whose except branch calls shutdown (mutant)
gather_on_exception_propagates(is_running) ==
    [running |-> FALSE, coordinator |-> "crashed"]

\* asyncio.gather(*connection_tasks, return_exceptions=True): a task's
\* exception becomes its result; the other tasks and the caller go on
gather_on_exception(is_running) ==
    [running |-> is_running, coordinator |-> "gathering"]

\* the messages of subscription_attempts that attempt_subscriptions sends
\* (the tenth entry, None, only sleeps)
SubscriptionMessages == 1..9

\* which ws.send calls of one attempt_subscriptions raise
SendFailures == {{}, {1}, {4, 5}, SubscriptionMessages}

\* attempt_subscriptions letting the first failing send out (mutant)
attempt_subscriptions_nocatch(send_fails) ==
    [raised |-> send_fails # {},
     sent |-> Cardinality({i \in SubscriptionMessages :
                              \A j \in send_fails : i < j}),
     logged |-> 0]

\* attempt_subscriptions: each send sits in its own try inside the for
\* loop; "except Exception" logs the error and the loop goes on
attempt_subscriptions(send_fails) ==
    [raised |-> FALSE,
     sent |-> Cardinality(SubscriptionMessages \ send_fails),
     logged |-> Cardinality(SubscriptionMessages \cap send_fails)]

HandlerInit ==
    /\ running = TRUE
    /\ h_pc = [e \in Endpoints |-> "loop"]
    /\ retry_count = [e \in Endpoints |-> 0]
    /\ h_exit = [e \in Endpoints |-> "none"]
    /\ ws_connections = {}
    /\ h_frames = 0
    /\ h_forbidden = {}
    /\ h_after403 = [e \in Endpoints |-> {}]
    /\ monitor_pc = "running"
    /\ coordinator = "gathering"
    /\ h_after_failure = {}
    /\ h_wait = [e \in Endpoints |-> 0]
    /\ h_sub_errors = {}

\* while self.running and retry_count < max_retries: websockets.connect(...)
HConnect(e) ==
    /\ h_pc[e] = "loop"
    /\ running /\ retry_count[e] < max_retries
    /\ h_after403' = [x \in Endpoints |->
                         IF x \in h_forbidden
                         THEN h_after403[x] \cup {e} ELSE h_after403[x]]
    /\ h_pc' = [h_pc EXCEPT ![e] = "connecting"]
    /\ UNCHANGED <<running, retry_count, h_exit, ws_connections, h_frames,
                   h_forbidden>>
    /\ UNCHANGED <<monitor_pc, coordinator>>
    /\ h_after_failure' = IF monitor_pc = "failed"
                          THEN h_after_failure \cup {e} ELSE h_after_failure
    /\ UNCHANGED h_wait
    /\ UNCHANGED h_sub_errors
    /\ UNCHANGED notHandler

\* the while test fails: "max retries exceeded"
HLoopExit(e) ==
    /\ h_pc[e] = "loop"
    /\ ~(running /\ retry_count[e] < max_retries)
    /\ h_pc' = [h_pc EXCEPT ![e] = "exited"]
    /\ h_exit' = [h_exit EXCEPT ![e] = "max_retries"]
    /\ UNCHANGED <<running, retry_count, ws_connections, h_frames, h_forbidden, h_after403>>
    /\ UNCHANGED <<monitor_pc, coordinator, h_after_failure>>
    /\ UNCHANGED h_wait
    /\ UNCHANGED h_sub_errors
    /\ UNCHANGED notHandler

\* asyncio.TimeoutError, ConnectionClosed or any other Exception out of
\* websockets.connect: retry_count += 1
HConnectFails(e) ==
    /\ h_pc[e] = "connecting"
    /\ retry_count' = [retry_count EXCEPT ![e] = @ + 1]
    /\ h_pc' = [h_pc EXCEPT ![e] = AfterAttempt(retry_count[e] + 1)]
    /\ UNCHANGED <<running, h_exit, ws_connections, h_frames, h_forbidden, h_after403>>
    /\ UNCHANGED <<monitor_pc, coordinator, h_after_failure>>
    /\ h_wait' = IF AfterAttempt(retry_count[e] + 1) = "sleeping"
                 THEN [h_wait EXCEPT ![e] = wait_time(retry_count[e] + 1)]
                 ELSE h_wait
    /\ UNCHANGED h_sub_errors
    /\ UNCHANGED notHandler

\* InvalidStatusCode out of websockets.connect; on 401 the handler first
\* awaits refresh_authentication()
HConnectStatus(e) ==
    /\ h_pc[e] = "connecting"
    /\ \E status \in Statuses :
        LET r == on_invalid_status(status, retry_count[e]) IN
        /\ IF r.break
           THEN /\ h_pc' = [h_pc EXCEPT ![e] = "exited"]
                /\ h_exit' = [h_exit EXCEPT ![e] = "forbidden"]
                /\ UNCHANGED retry_count
           ELSE IF r.refresh
           THEN /\ h_pc' = [h_pc EXCEPT ![e] = "refreshing"]
                /\ UNCHANGED <<h_exit, retry_count>>
           ELSE /\ h_pc' = [h_pc EXCEPT ![e] = AfterAttempt(r.retry_count)]
                /\ retry_count' = [retry_count EXCEPT ![e] = r.retry_count]
                /\ UNCHANGED h_exit
        /\ h_forbidden' = IF status = 403 THEN h_forbidden \cup {e} ELSE h_forbidden
    /\ UNCHANGED <<running, ws_connections, h_frames, h_after403>>
    /\ UNCHANGED <<monitor_pc, coordinator, h_after_failure>>
    /\ h_wait' = IF h_pc'[e] = "sleeping"
                 THEN [h_wait EXCEPT ![e] = wait_time(retry_count'[e])]
                 ELSE h_wait
    /\ UNCHANGED h_sub_errors
    /\ UNCHANGED notHandler

\* refresh_authentication() returned (it swallows its own errors):
\* retry_count += 1, then the wait before the next attempt
HRefreshed(e) ==
    /\ h_pc[e] = "refreshing"
    /\ retry_count' = [retry_count EXCEPT
                          ![e] = on_invalid_status(401, retry_count[e]).retry_count]
    /\ h_pc' = [h_pc EXCEPT
                   ![e] = AfterAttempt(on_invalid_status(401, retry_count[e]).retry_count)]
    /\ UNCHANGED <<running, h_exit, ws_connections, h_frames, h_forbidden, h_after403>>
    /\ UNCHANGED <<monitor_pc, coordinator, h_after_failure>>
    /\ h_wait' = IF AfterAttempt(on_invalid_status(401, retry_count[e]).retry_count) = "sleeping"
                 THEN [h_wait EXCEPT ![e] = wait_time(on_invalid_status(401, retry_count[e]).retry_count)]
                 ELSE h_wait
    /\ UNCHANGED h_sub_errors
    /\ UNCHANGED notHandler

\* the handshake succeeded: self.ws_connections[endpoint] = ws
HConnected(e) ==
    /\ h_pc[e] = "connecting"
    /\ ws_connections' = ws_connections \cup {e}
    /\ h_pc' = [h_pc EXCEPT ![e] = "subscribing"]
    /\ UNCHANGED <<running, retry_count, h_exit, h_frames, h_forbidden, h_after403>>
    /\ UNCHANGED <<monitor_pc, coordinator, h_after_failure>>
    /\ UNCHANGED h_wait
    /\ UNCHANGED h_sub_errors
    /\ UNCHANGED notHandler

\* await self.attempt_subscriptions(ws, endpoint) with the sends in
\* send_fails raising: without an exception the handler goes on to
\* listen_for_real_data, with one its "except Exception" counts a failure
HSubscribed(e) ==
    /\ h_pc[e] = "subscribing"
    /\ \E send_fails \in SendFailures :
        LET r == attempt_subscriptions(send_fails) IN
        /\ h_sub_errors' = IF send_fails # {} THEN h_sub_errors \cup {e}
                           ELSE h_sub_errors \ {e}
        /\ IF r.raised
           THEN /\ retry_count' = [retry_count EXCEPT ![e] = @ + 1]
                /\ h_pc' = [h_pc EXCEPT ![e] = AfterAttempt(retry_count[e] + 1)]
                /\ h_wait' = IF AfterAttempt(retry_count[e] + 1) = "sleeping"
                             THEN [h_wait EXCEPT ![e] = wait_time(retry_count[e] + 1)]
                             ELSE h_wait
           ELSE /\ h_pc' = [h_pc EXCEPT ![e] = "listening"]
                /\ UNCHANGED <<retry_count, h_wait>>
    /\ UNCHANGED <<running, h_exit, ws_connections, h_frames, h_forbidden, h_after403>>
    /\ UNCHANGED <<monitor_pc, coordinator, h_after_failure>>
    /\ UNCHANGED notHandler

\* listen_for_real_data reads one frame
HFrame(e) ==
    /\ h_pc[e] = "listening"
    /\ h_frames < MaxFrames
    /\ h_frames' = h_frames + 1
    /\ UNCHANGED <<running, h_pc, retry_count, h_exit, ws_connections, h_forbidden, h_after403>>
    /\ UNCHANGED <<monitor_pc, coordinator, h_after_failure>>
    /\ UNCHANGED h_wait
    /\ UNCHANGED h_sub_errors
    /\ UNCHANGED notHandler

\* listen_for_real_data returns (ConnectionClosed or any Exception is caught
\* in it; finally removes the endpoint from ws_connections); no exception
\* reaches the handler, so retry_count stays
HListenEnds(e) ==
    /\ h_pc[e] = "listening"
    /\ ws_connections' = ws_connections \ {e}
    /\ h_pc' = [h_pc EXCEPT ![e] = AfterAttempt(retry_count[e])]
    /\ UNCHANGED <<running, retry_count, h_exit, h_frames, h_forbidden, h_after403>>
    /\ UNCHANGED <<monitor_pc, coordinator, h_after_failure>>
    /\ h_wait' = IF AfterAttempt(retry_count[e]) = "sleeping"
                 THEN [h_wait EXCEPT ![e] = wait_time(retry_count[e])]
                 ELSE h_wait
    /\ UNCHANGED h_sub_errors
    /\ UNCHANGED notHandler

\* asyncio.sleep(wait_time) is over
HWake(e) ==
    /\ h_pc[e] = "sleeping"
    /\ h_pc' = [h_pc EXCEPT ![e] = "loop"]
    /\ UNCHANGED <<running, retry_count, h_exit, ws_connections, h_frames, h_forbidden, h_after403>>
    /\ UNCHANGED <<monitor_pc, coordinator, h_after_failure>>
    /\ UNCHANGED h_wait
    /\ UNCHANGED h_sub_errors
    /\ UNCHANGED notHandler

\* status_monitor raises out of its loop (whale.whale_address[:8] on an
\* address that is no string); gather decides what that does to the rest
MonitorRaises ==
    /\ monitor_pc = "running"
    /\ coordinator = "gathering"
    /\ monitor_pc' = "failed"
    /\ running' = gather_on_exception(running).running
    /\ coordinator' = gather_on_exception(running).coordinator
    /\ UNCHANGED <<h_pc, retry_count, h_exit, ws_connections, h_frames,
                   h_forbidden, h_after403, h_after_failure>>
    /\ UNCHANGED h_wait
    /\ UNCHANGED h_sub_errors
    /\ UNCHANGED notHandler

\* every task given to asyncio.gather has finished: gather returns
GatherReturns ==
    /\ coordinator = "gathering"
    /\ monitor_pc # "running"
    /\ \A e \in Endpoints : h_pc[e] = "exited"
    /\ coordinator' = "returned"
    /\ UNCHANGED <<running, h_pc, retry_count, h_exit, ws_connections, h_frames,
                   h_forbidden, h_after403, monitor_pc, h_after_failure>>
    /\ UNCHANGED h_wait
    /\ UNCHANGED h_sub_errors
    /\ UNCHANGED notHandler

HandlerNext ==
    \/ \E e \in Endpoints :
        \/ HConnect(e)
        \/ HLoopExit(e)
        \/ HConnectFails(e)
        \/ HConnectStatus(e)
        \/ HRefreshed(e)
        \/ HConnected(e)
        \/ HSubscribed(e)
        \/ HFrame(e)
        \/ HListenEnds(e)
        \/ HWake(e)
    \/ MonitorRaises
    \/ GatherReturns


(***************************************************************************)
(* The processing queue of production_whale_discovery.py: initialize()     *)
(* connects the two feeds (one handle_production_messages task each),      *)
(* start_production_processing starts process_production_queue, and        *)
(* shutdown clears self.running.  final_production_whale_discovery.py has   *)
(* the same shape (handle_final_messages, process_final_queue).            *)
(***************************************************************************)
\* the two feeds of connect_production_websockets
QSources == {"cluster7", "eucalyptus"}
\* asyncio.Queue(maxsize=1000), scaled down
QueueSize == 2
\* frames the two connections deliver in one run
MaxQueueFrames == 4
\* what json.loads gave: a list longer than 25, a dict, anything else, or an
\* exception
FrameKinds == {"production_array", "production_dict", "other", "invalid_json"}
\* the frames handle_production_messages puts on the queue
Queued == {"production_array", "production_dict"}

QueueInit ==
    /\ q_phase = "connecting"
    /\ q_running = FALSE
    /\ processing_queue = << >>
    /\ prod_pc = [s \in QSources |-> "absent"]
    /\ prod_item = [s \in QSources |-> "none"]
    /\ worker_pc = "absent"
    /\ worker_item = "none"
    /\ tokens_processed = 0
    /\ q_frames = 0

\* connect_production_websockets: the connection is up and
\* asyncio.create_task(self.handle_production_messages(source, ws))
QConnect(s) ==
    /\ q_phase = "connecting"
    /\ prod_pc[s] = "absent"
    /\ prod_pc' = [prod_pc EXCEPT ![s] = "reading"]
    /\ UNCHANGED <<q_phase, q_running, processing_queue, prod_item, worker_pc,
                   worker_item, tokens_processed, q_frames>>
    /\ UNCHANGED notQueue

\* connect_production_websockets: the connection failed (exception logged)
QConnectFails(s) ==
    /\ q_phase = "connecting"
    /\ prod_pc[s] = "absent"
    /\ prod_pc' = [prod_pc EXCEPT ![s] = "failed"]
    /\ UNCHANGED <<q_phase, q_running, processing_queue, prod_item, worker_pc,
                   worker_item, tokens_processed, q_frames>>
    /\ UNCHANGED notQueue

\* success_count > 0: start_production_processing sets self.running and
\* creates the process_production_queue task
QStartProcessing ==
    /\ q_phase = "connecting"
    /\ \A s \in QSources : prod_pc[s] # "absent"
    /\ \E s \in QSources : prod_pc[s] # "failed"
    /\ q_phase' = "processing"
    /\ q_running' = TRUE
    /\ worker_pc' = "getting"
    /\ UNCHANGED <<processing_queue, prod_pc, prod_item, worker_item,
                   tokens_processed, q_frames>>
    /\ UNCHANGED notQueue

\* main's finally: shutdown() clears self.running (also reached when
\* initialize() returned False)
QShutdown ==
    /\ \/ q_phase = "processing"
       \/ q_phase = "connecting" /\ \A s \in QSources : prod_pc[s] = "failed"
    /\ q_phase' = "stopped"
    /\ q_running' = FALSE
    /\ UNCHANGED <<processing_queue, prod_pc, prod_item, worker_pc, worker_item,
                   tokens_processed, q_frames>>
    /\ UNCHANGED notQueue

\* async for raw_message in ws: one frame; a long list or a dict goes on to
\* processing_queue.put, anything else (json.loads raising included) is
\* done with at once
QRead(s) ==
    /\ prod_pc[s] = "reading"
    /\ q_frames < MaxQueueFrames
    /\ q_frames' = q_frames + 1
    /\ \E kind \in FrameKinds :
        IF kind \in Queued
        THEN /\ prod_pc' = [prod_pc EXCEPT ![s] = "putting"]
             /\ prod_item' = [prod_item EXCEPT ![s] = kind]
        ELSE UNCHANGED <<prod_pc, prod_item>>
    /\ UNCHANGED <<q_phase, q_running, processing_queue, worker_pc, worker_item,
                   tokens_processed>>
    /\ UNCHANGED notQueue

\* await self.processing_queue.put(...): completes when the queue has a
\* free slot; the call has no timeout
QPut(s) ==
    /\ prod_pc[s] = "putting"
    /\ Len(processing_queue) < QueueSize
    /\ processing_queue' = Append(processing_queue,
                                  [kind |-> prod_item[s], source |-> s])
    /\ prod_pc' = [prod_pc EXCEPT ![s] = "reading"]
    /\ prod_item' = [prod_item EXCEPT ![s] = "none"]
    /\ UNCHANGED <<q_phase, q_running, worker_pc, worker_item, tokens_processed,
                   q_frames>>
    /\ UNCHANGED notQueue

\* the async for ends: ConnectionClosed (reconnect_websocket only sleeps) or
\* another exception; the handler returns
QClosed(s) ==
    /\ prod_pc[s] = "reading"
    /\ prod_pc' = [prod_pc EXCEPT ![s] = "closed"]
    /\ UNCHANGED <<q_phase, q_running, processing_queue, prod_item, worker_pc,
                   worker_item, tokens_processed, q_frames>>
    /\ UNCHANGED notQueue

\* process_production_queue: wait_for(self.processing_queue.get(), 10.0)
\* returns the oldest item
WGet ==
    /\ worker_pc = "getting"
    /\ processing_queue # << >>
    /\ worker_item' = Head(processing_queue).kind
    /\ processing_queue' = Tail(processing_queue)
    /\ worker_pc' = "processing"
    /\ UNCHANGED <<q_phase, q_running, prod_pc, prod_item, tokens_processed,
                   q_frames>>
    /\ UNCHANGED notQueue

\* the item is parsed (or the parse raised and the error was logged after a
\* 1 s sleep, which skips the metric); then the while test
WDone ==
    /\ worker_pc = "processing"
    /\ \E raised \in BOOLEAN :
        tokens_processed' = IF raised THEN tokens_processed
                            ELSE tokens_processed + 1
    /\ worker_item' = "none"
    /\ worker_pc' = IF q_running THEN "getting" ELSE "exited"
    /\ UNCHANGED <<q_phase, q_running, processing_queue, prod_pc, prod_item,
                   q_frames>>
    /\ UNCHANGED notQueue

\* the get timed out on an empty queue and "while self.running" fails
WExit ==
    /\ worker_pc = "getting"
    /\ processing_queue = << >>
    /\ ~q_running
    /\ worker_pc' = "exited"
    /\ UNCHANGED <<q_phase, q_running, processing_queue, prod_pc, prod_item,
                   worker_item, tokens_processed, q_frames>>
    /\ UNCHANGED notQueue

\* the steps handle_production_messages can take by itself
ProducerStep(s) == QRead(s) \/ QPut(s) \/ QClosed(s)

QueueNext ==
    \/ \E s \in QSources : QConnect(s)
    \/ \E s \in QSources : QConnectFails(s)
    \/ QStartProcessing
    \/ QShutdown
    \/ \E s \in QSources : QRead(s)
    \/ \E s \in QSources : QPut(s)
    \/ \E s \in QSources : QClosed(s)
    \/ WGet
    \/ WDone
    \/ WExit


(***************************************************************************)
(* calculate_whale_confidence (ultimate_whale_discovery.py).  Scores are   *)
(* in thousandths (0.4 is 400), amounts in whole SOL, holdings in whole    *)
(* percent, so liquidity / 50 is liquidity * 20 and percent / 100 is       *)
(* percent * 10.                                                           *)
(***************************************************************************)
\* platform strings and what "'Raydium' in platform" etc. give for them
Platforms == {"Raydium CLMM", "Meteora DLMM", "Pump AMM", "Unknown"}
ContainsRaydium(platform) == platform = "Raydium CLMM"
ContainsMeteora(platform) == platform = "Meteora DLMM"
ContainsPumpAMM(platform) == platform = "Pump AMM"

\* token_data as the two producers build it
TokenData(creator, liquidity, snipers, dev, burned, platform, web, tw, tg) ==
    [creator_address |-> creator, liquidity_sol |-> liquidity,
     snipers_hold_percent |-> snipers, dev_holds_percent |-> dev,
     lp_burned |-> burned, platform |-> platform,
     website |-> web, twitter |-> tw, telegram |-> tg]

\* the inputs the scorer is checked on
TokenInputs ==
    {TokenData("W1", l, sn, d, b, pf, w, tw, tg) :
        l \in {0, 5, 10, 100, 1000}, sn \in {0, 5, 10, 25, 50},
        d \in {3, 20, 50}, b \in BOOLEAN, pf \in Platforms,
        w \in {"", "site"}, tw \in {"", "tw"}, tg \in {"", "tg"}}

\* the rubric: score after the last "+=", before the return
raw_score(token_data) ==
    LET liquidity == token_data.liquidity_sol
        snipers_percent == token_data.snipers_hold_percent
        dev_percent == token_data.dev_holds_percent
        platform == token_data.platform
    IN  (IF liquidity >= 1000 THEN 400
         ELSE IF liquidity >= 100 THEN 300
         ELSE IF liquidity >= 10 THEN 200
         ELSE IF liquidity > 0 THEN liquidity * 20 ELSE 0)
      + (IF snipers_percent >= 50 THEN 400
         ELSE IF snipers_percent >= 25 THEN 300
         ELSE IF snipers_percent >= 10 THEN 200
         ELSE IF snipers_percent > 0 THEN snipers_percent * 10 ELSE 0)
      + (IF dev_percent <= 5 THEN 100
         ELSE IF dev_percent >= 50 THEN -200 ELSE 0)
      + (IF token_data.lp_burned THEN 100 ELSE 0)
      + (IF ContainsRaydium(platform) \/ ContainsMeteora(platform) THEN 100
         ELSE IF ContainsPumpAMM(platform) THEN 50 ELSE 0)
      + (IF token_data.website # "" THEN 50 ELSE 0)
      + (IF token_data.twitter # "" THEN 50 ELSE 0)
      + (IF token_data.telegram # "" THEN 50 ELSE 0)

\* the scorer returning the sum as it is (mutant)
calculate_whale_confidence_noclamp(token_data) == raw_score(token_data)

\* return min(1.0, max(0.0, score))
calculate_whale_confidence(token_data) ==
    Min(1000, Max(0, raw_score(token_data)))

NoCall == [raw |-> 0, score |-> 0, called |-> FALSE]
\* no token_data at hand (between two calls)
NoToken == TokenData("", 0, 0, 0, FALSE, "Unknown", "", "", "")

ScorerInit ==
    /\ sc_pc = "input"
    /\ sc_input \in TokenInputs
    /\ sc_raw = 0
    /\ sc_score = 0
    /\ sc_prev = NoCall

\* the scorer's variables while it is not the one being run
ScorerIdle ==
    /\ sc_pc = "off"
    /\ sc_input = NoToken
    /\ sc_raw = 0
    /\ sc_score = 0
    /\ sc_prev = NoCall

\* confidence = self.calculate_whale_confidence(token_data); the caller is
\* done with token_data
Score ==
    /\ sc_pc = "input"
    /\ sc_raw' = raw_score(sc_input)
    /\ sc_score' = calculate_whale_confidence(sc_input)
    /\ sc_pc' = "scored"
    /\ sc_input' = NoToken
    /\ UNCHANGED sc_prev
    /\ UNCHANGED notScorer

\* the next token_data arrives (one more call, the last result kept)
NextToken ==
    /\ sc_pc = "scored"
    /\ ~sc_prev.called
    /\ sc_prev' = [raw |-> sc_raw, score |-> sc_score, called |-> TRUE]
    /\ sc_input' \in TokenInputs
    /\ sc_pc' = "input"
    /\ UNCHANGED <<sc_raw, sc_score>>
    /\ UNCHANGED notScorer

ScorerNext == Score \/ NextToken


(***************************************************************************)
(* listen_for_real_data and parse_real_message (ultimate_whale_discovery): *)
(* one connection's read loop.  A frame is what the websocket iterator     *)
(* hands over (str or bytes); body names what is in it.  Every function    *)
(* is modelled by its result: returned, or raised an exception of a type,  *)
(* together with the record call it made, if any.                          *)
(***************************************************************************)
\* frames read on the connection in one run
MaxListenFrames == 2
\* record calls made by the two tasks together
MaxRecordCalls == 3

Frames ==
    { [wire |-> "bytes", body |-> "bad_utf8"],           \* not UTF-8
      [wire |-> "text",  body |-> "not_json"],           \* plain text
      [wire |-> "bytes", body |-> "not_json"],           \* binary, not JSON
      [wire |-> "text",  body |-> "scalar"],             \* JSON number
      [wire |-> "text",  body |-> "array_5"],            \* list of 5
      [wire |-> "text",  body |-> "array_12"],           \* list of 12
      [wire |-> "text",  body |-> "array_30_whale"],     \* list of 30, scores
      [wire |-> "text",  body |-> "array_30_garbage"],   \* list of 30 nulls/objects
      [wire |-> "text",  body |-> "new_pairs_whale"],    \* room new_pairs, good token
      [wire |-> "text",  body |-> "new_pairs_mid"],      \* room new_pairs, scores 0.3
      [wire |-> "text",  body |-> "new_pairs_no_creator"], \* content without deployer_address
      [wire |-> "text",  body |-> "new_pairs_no_creator_mid"], \* the same, other token, scores 0.5
      [wire |-> "text",  body |-> "new_pairs_no_content"],
      [wire |-> "text",  body |-> "new_pairs_content_scalar"],
      [wire |-> "text",  body |-> "new_pairs_bad_numbers"],  \* strings for numbers
      [wire |-> "text",  body |-> "new_pairs_list_creator"], \* deployer_address a list
      [wire |-> "text",  body |-> "wallet_tx"],          \* room "v:...", content
      [wire |-> "text",  body |-> "wallet_tx_no_content"],
      [wire |-> "text",  body |-> "wallet_tx_content_scalar"],
      [wire |-> "text",  body |-> "wallet_tx_bad_number"],   \* total_sol "abc"
      [wire |-> "text",  body |-> "room_not_string"],    \* {"room": 5}
      [wire |-> "text",  body |-> "typed_nested_array"], \* type and data list
      [wire |-> "text",  body |-> "plain_dict"] }

\* the frames the claim's list names as bad
BadFrames ==
    {f \in Frames : f.body \in {"bad_utf8", "not_json", "array_5",
                                "array_30_garbage", "new_pairs_no_content",
                                "new_pairs_bad_numbers", "new_pairs_list_creator",
                                "wallet_tx_no_content", "wallet_tx_content_scalar",
                                "wallet_tx_bad_number", "room_not_string"}}

\* every exception type met here derives from Exception
ExceptionSubclasses ==
    {"UnicodeDecodeError", "JSONDecodeError", "AttributeError", "ValueError",
     "TypeError"}

NoRecord == [found |-> FALSE, wallet |-> "", confidence |-> 0]
Returned(rec) == [raised |-> FALSE, type |-> "none", record |-> rec]
Raised(t) == [raised |-> TRUE, type |-> t, record |-> NoRecord]

\* try: ... except Exception as e: log
CatchException(r) ==
    IF r.raised /\ r.type \in ExceptionSubclasses THEN Returned(r.record) ELSE r

\* the token_data process_token_array builds from the 30-field frames
ArrayToken(body) ==
    IF body = "array_30_whale"
    THEN TokenData("W2", 500, 0, 0, FALSE, "Raydium CLMM", "site", "tw", "tg")
    ELSE TokenData("", 0, 0, 0, FALSE, "Unknown", "", "", "")

\* the token_data process_sdk_new_pairs builds from a new_pairs token
\* (safe_get_float turns a non-number into 0.0)
PairToken(body) ==
    IF body = "new_pairs_whale"
    THEN TokenData("W1", 1200, 60, 3, TRUE, "Raydium CLMM", "", "", "")
    ELSE IF body = "new_pairs_no_creator"
    THEN \* token.get('deployer_address', '')
         TokenData("", 1200, 60, 3, TRUE, "Raydium CLMM", "", "", "")
    ELSE IF body = "new_pairs_no_creator_mid"
    THEN TokenData("", 100, 0, 3, TRUE, "Unknown", "", "", "")
    ELSE IF body = "new_pairs_mid"
    THEN TokenData("W3", 100, 0, 20, FALSE, "Unknown", "", "", "")
    ELSE IF body = "new_pairs_list_creator"
    THEN TokenData("unhashable", 1200, 60, 3, TRUE, "Raydium CLMM", "", "", "")
    ELSE TokenData("", 0, 0, 0, FALSE, "Unknown", "", "", "")

\* "if confidence > 0.4:  # 40% confidence threshold"
is_whale(confidence) == confidence > 400

\* "if confidence > 0.4: await self.record_whale_discovery(...)"; a list
\* as creator_address makes "whale_address in self.discovered_whales" raise
ScoreAndRecord(token_data) ==
    LET confidence == calculate_whale_confidence(token_data) IN
    IF is_whale(confidence)
    THEN IF token_data.creator_address = "unhashable"
         THEN Raised("TypeError")
         ELSE Returned([found |-> TRUE, wallet |-> token_data.creator_address,
                        confidence |-> confidence])
    ELSE Returned(NoRecord)

process_token_array(body) == CatchException(ScoreAndRecord(ArrayToken(body)))

process_sdk_new_pairs(body) ==
    CatchException(IF body = "new_pairs_content_scalar"
                   THEN Returned(NoRecord)
                   ELSE ScoreAndRecord(PairToken(body)))

process_sdk_wallet_transaction(body) ==
    CatchException(IF body = "wallet_tx_content_scalar" THEN Raised("AttributeError")
                   ELSE IF body = "wallet_tx_bad_number" THEN Raised("ValueError")
                   ELSE Returned(NoRecord))

handle_structured_message(body) ==
    IF body = "typed_nested_array" THEN process_token_array("array_30_garbage")
    ELSE Returned(NoRecord)

handle_non_json_data(frame) == Returned(NoRecord)

\* raw_message.decode('utf-8') or str(raw_message)
decode(frame) ==
    IF frame.wire = "bytes" /\ frame.body = "bad_utf8"
    THEN Raised("UnicodeDecodeError") ELSE Returned(NoRecord)

\* the inner try: json.loads and the dispatch on the shape of data
parse_json_and_dispatch(frame) ==
    LET body == frame.body IN
    IF body = "not_json" THEN Raised("JSONDecodeError")
    ELSE IF body \in {"new_pairs_whale", "new_pairs_mid", "new_pairs_no_creator",
                      "new_pairs_no_creator_mid", "new_pairs_content_scalar",
                      "new_pairs_bad_numbers", "new_pairs_list_creator"}
    THEN process_sdk_new_pairs(body)
    ELSE IF body = "room_not_string" THEN Raised("AttributeError")
    ELSE IF body \in {"wallet_tx", "wallet_tx_content_scalar", "wallet_tx_bad_number"}
    THEN process_sdk_wallet_transaction(body)
    ELSE IF body \in {"new_pairs_no_content", "wallet_tx_no_content",
                      "typed_nested_array", "plain_dict"}
    THEN handle_structured_message(body)
    ELSE IF body \in {"array_30_whale", "array_30_garbage"}
    THEN process_token_array(body)
    ELSE Returned(NoRecord)

\* the body of parse_real_message's outer try
parse_real_message_body(frame) ==
    IF decode(frame).raised THEN decode(frame)
    ELSE LET r == parse_json_and_dispatch(frame) IN
         IF r.raised /\ r.type = "JSONDecodeError"
         THEN handle_non_json_data(frame)
         ELSE r

\* parse_real_message without its outer "except Exception" (mutant)
parse_real_message_nocatch(frame) == parse_real_message_body(frame)

parse_real_message(frame) == CatchException(parse_real_message_body(frame))

\* token.get('token_ticker', 'UNKNOWN') of the frame's token
FrameTicker(frame) ==
    IF frame.body = "new_pairs_no_creator_mid" THEN "T2" ELSE "T1"

ListenInit ==
    /\ l_pc = "listening"
    /\ l_read = << >>
    /\ l_raised = "none"

\* the read loop's variables while it is not the one being run
ListenIdle ==
    /\ l_pc = "off"
    /\ l_read = << >>
    /\ l_raised = "none"

\* async for raw_message in ws: one frame is counted, parsed (a record call
\* included), and the loop goes on; an exception out of parse_real_message
\* lands in the loop's "except Exception" and ends it
ListenFrame ==
    /\ l_pc = "listening"
    /\ Len(l_read) < MaxListenFrames
    /\ \E frame \in Frames, io_ok \in BOOLEAN :
        LET r == parse_real_message(frame) IN
        /\ l_read' = Append(l_read, frame)
        /\ l_raised' = r.type
        /\ l_pc' = IF r.raised THEN "ended" ELSE "listening"
        /\ IF r.record.found
           THEN StoreUpdate(record_whale_discovery(discovered_whales,
                                r.record.wallet, r.record.confidence,
                                FrameTicker(frame)),
                            r.record.wallet, r.record.confidence,
                            FrameTicker(frame), io_ok, FALSE)
           ELSE UNCHANGED storeVars
    /\ UNCHANGED notStoreListen

\* the iterator raises ConnectionClosed: the loop ends
ListenClosed ==
    /\ l_pc = "listening"
    /\ l_pc' = "ended"
    /\ UNCHANGED <<l_read, l_raised>>
    /\ UNCHANGED storeVars
    /\ UNCHANGED notStoreListen

ListenNext == ListenFrame \/ ListenClosed

(***************************************************************************)
(* Store: what the log says about one wallet                               *)
(***************************************************************************)
LogOf(w) == SelectSeq(call_log, LAMBDA e : e.wallet = w)
FedScores(w) == [i \in 1..Len(LogOf(w)) |-> LogOf(w)[i].score]
Promotions(w) == Cardinality({i \in 1..Len(call_log) :
                                 call_log[i].wallet = w /\ call_log[i].promoted})
Creations(w) == Cardinality({i \in 1..Len(call_log) :
                                call_log[i].wallet = w /\ call_log[i].created})
\* whether a score reaches the running script's auto-add condition
ReachesAutoAdd(c) == IF script = "production" THEN c >= auto_add_threshold
                     ELSE c > ultimate_auto_add_above

(***************************************************************************)
(* Two handler tasks recording discoveries (ultimate_whale_discovery)      *)
(***************************************************************************)
\* connect_cluster7 and connect_eucalyptus, gathered by start_real_discovery:
\* each reads frames and awaits record_whale_discovery
RecordTasks == {"cluster7", "eucalyptus"}

\* confidences above the "confidence > 0.4" gate of the callers
RecordScores == {450, 600, 800}

NoArg == [wallet |-> "", token |-> "", confidence |-> 0]

\* record_whale_discovery giving the event loop a turn between its
\* membership test and its write (mutant)
yields_in_record_before_write(task) == TRUE

\* record_whale_discovery from "if whale_address in self.discovered_whales"
\* to "self.discovered_whales[whale_address] = whale": no await in between
yields_in_record(task) == FALSE

RecordInit ==
    /\ rec_pc = [t \in RecordTasks |-> "ready"]
    /\ rec_arg \in [RecordTasks -> [wallet : Wallets, token : Tokens,
                                    confidence : RecordScores]]

\* the tasks' variables while they are not the ones being run
RecordIdle ==
    /\ rec_pc = [t \in RecordTasks |-> "off"]
    /\ rec_arg = [t \in RecordTasks |-> NoArg]

\* One turn of a task inside "await self.record_whale_discovery(...)": the
\* whole call, or, where the call yields, first the membership test and on
\* the next turn the write that the test chose.
TaskRecords(t) ==
    /\ rec_pc[t] \in {"ready", "checked_new", "checked_seen"}
    /\ LET a == rec_arg[t] IN
       IF rec_pc[t] = "ready" /\ yields_in_record(t)
       THEN /\ rec_pc' = [rec_pc EXCEPT ![t] =
                             IF a.wallet \in DOMAIN discovered_whales
                             THEN "checked_seen" ELSE "checked_new"]
            /\ UNCHANGED storeVars
       ELSE /\ rec_pc' = [rec_pc EXCEPT ![t] = "done"]
            /\ \E io_ok \in BOOLEAN :
                 StoreUpdate(IF rec_pc[t] = "checked_new"
                             THEN record_whale_discovery_nodedup(
                                      discovered_whales, a.wallet,
                                      a.confidence, a.token)
                             ELSE record_whale_discovery(
                                      discovered_whales, a.wallet,
                                      a.confidence, a.token),
                             a.wallet, a.confidence, a.token, io_ok, FALSE)
    /\ UNCHANGED rec_arg
    /\ UNCHANGED notStoreRecord

\* the next frame of a task carries another discovery
TaskNextEvent(t) ==
    /\ rec_pc[t] = "done"
    /\ Len(call_log) < MaxRecordCalls
    /\ rec_pc' = [rec_pc EXCEPT ![t] = "ready"]
    /\ \E w \in Wallets, c \in RecordScores :
          rec_arg' = [rec_arg EXCEPT ![t] = [wallet |-> w, token |-> "T2",
                                             confidence |-> c]]
    /\ UNCHANGED storeVars
    /\ UNCHANGED notStoreRecord

RecordNext == \E t \in RecordTasks : TaskRecords(t) \/ TaskNextEvent(t)

(***************************************************************************)
(* A top-level JSON array through parse_real_message and                   *)
(* process_token_array (ultimate_whale_discovery)                          *)
(***************************************************************************)
\* len(data) of the arrays tried
ArrayLengths == {5, 12, 25, 26, 30}

\* values met at the financial positions 13..24 (0: missing, None or no number)
BlockValues == {0, 50, 500, 10000, 13600, 20000}

\* how many of the financial positions carry one of these values
MaxBlock == 4

Blocks == UNION {[1..n -> BlockValues] : n \in 0..MaxBlock}

\* the text fields: those of scenario A, or a bare array
ArrayMetas == {"scenario_a", "bare"}

ArrayInputs == [len : ArrayLengths, meta : ArrayMetas, block : Blocks]

NoArray == [len |-> 0, meta |-> "bare", block |-> << >>]

Financials(volume, market_cap, liquidity) ==
    [volume_sol |-> volume, market_cap_sol |-> market_cap,
     liquidity_sol |-> liquidity]

NoOutput == [volume_sol |-> 0, market_cap_sol |-> 0, liquidity_sol |-> 0,
             confidence |-> 0]

\* "elif isinstance(data, list) and len(data) > 25"
is_token_array(len) == len > 25

\* "elif isinstance(data, list) and len(data) > 5"
is_short_array(len) == len > 5

\* "if val > 0: financial_values.append((idx, val))"
financial_values(block) == SelectSeq(block, LAMBDA val : val > 0)

\* the assignment loop's body writing each field on every candidate (mutant)
assign_by_range_overwriting(td, val) ==
    IF val > 10000
    THEN [td EXCEPT !.market_cap_sol = td.volume_sol, !.volume_sol = val]
    ELSE IF val > 100 THEN [td EXCEPT !.liquidity_sol = val]
    ELSE td

\* the body of "for idx, val in financial_values"
assign_by_range(td, val) ==
    IF val > 10000
    THEN IF td.volume_sol = 0 THEN [td EXCEPT !.volume_sol = val]
         ELSE IF td.market_cap_sol = 0 THEN [td EXCEPT !.market_cap_sol = val]
         ELSE td
    ELSE IF val > 100
    THEN IF td.liquidity_sol = 0 THEN [td EXCEPT !.liquidity_sol = val]
         ELSE td
    ELSE td

RECURSIVE assign_financials(_, _)
assign_financials(td, values) ==
    IF values = << >> THEN td
    ELSE assign_financials(assign_by_range(td, Head(values)), Tail(values))

\* token_data as process_token_array hands it to calculate_whale_confidence:
\* the array form has no snipers_hold_percent, dev_holds_percent or lp_burned
ArrayTokenData(input) ==
    LET fin == assign_financials(Financials(0, 0, 0), financial_values(input.block))
    IN IF input.meta = "scenario_a"
       THEN TokenData("CreatorAddr", fin.liquidity_sol, 0, 0, FALSE,
                      "Raydium CLMM", "site", "tw", "tg")
       ELSE TokenData("W2", fin.liquidity_sol, 0, 0, FALSE, "Unknown", "", "", "")

ArrayInit ==
    /\ arr_pc = "input"
    /\ arr_in \in ArrayInputs
    /\ arr_out = NoOutput

\* the parser's variables while it is not the one being run
ArrayIdle ==
    /\ arr_pc = "off"
    /\ arr_in = NoArray
    /\ arr_out = NoOutput

\* parse_real_message on a JSON list: the two length tests
DispatchArray ==
    /\ arr_pc = "input"
    /\ arr_pc' = IF is_token_array(arr_in.len) THEN "array"
                 ELSE IF is_short_array(arr_in.len) THEN "short"
                 ELSE "ignored"
    /\ UNCHANGED <<arr_in, arr_out>>
    /\ UNCHANGED storeVars
    /\ UNCHANGED notStoreArray

\* process_token_array: the fields, the financial block, the confidence and,
\* above 0.4, record_whale_discovery
ProcessTokenArray ==
    /\ arr_pc = "array"
    /\ LET fin == assign_financials(Financials(0, 0, 0),
                                    financial_values(arr_in.block))
           td == ArrayTokenData(arr_in)
           confidence == calculate_whale_confidence(td)
           ticker == IF arr_in.meta = "scenario_a" THEN "RUMOR" ELSE "T1"
       IN /\ arr_out' = [volume_sol |-> fin.volume_sol,
                         market_cap_sol |-> fin.market_cap_sol,
                         liquidity_sol |-> fin.liquidity_sol,
                         confidence |-> confidence]
          /\ IF is_whale(confidence)
             THEN \E io_ok \in BOOLEAN :
                     StoreUpdate(record_whale_discovery(discovered_whales,
                                     td.creator_address, confidence, ticker),
                                 td.creator_address, confidence, ticker,
                                 io_ok, FALSE)
             ELSE UNCHANGED storeVars
    /\ arr_pc' = "scored"
    /\ UNCHANGED arr_in
    /\ UNCHANGED notStoreArray

ArrayNext == DispatchArray \/ ProcessTokenArray

(***************************************************************************)
(* process_final_queue, parse_final_token_array and discover_final_whale   *)
(* (final_production_whale_discovery).  The score of this script divides   *)
(* by 200, 4500 and 45000, so it is kept in 45000ths here: 0.25 is 11250.  *)
(***************************************************************************)
\* one whole in the unit of calculate_final_score's result
FinalUnit == 45000

\* len(data) of the arrays taken from the queue
FinalLengths == {25, 30}

\* token_array[17], SOL
FinalVolumes == {0, 40, 50, 100, 101, 150, 1001}

\* queue items processed in one run
MaxFinalItems == 3

\* "if isinstance(data, list) and len(data) > 25"
is_final_token_array(len) == len > 25

\* calculate_final_score, in 45000ths
calculate_final_score(token_data) ==
    LET volume_sol == token_data.volume_sol
    IN IF volume_sol >= 10000 THEN FinalUnit
       ELSE IF volume_sol >= 1000 THEN 36000 + (volume_sol - 1000)
       ELSE IF volume_sol >= 100 THEN 22500 + 10 * (volume_sol - 100)
       ELSE 225 * volume_sol

\* "if token_data['volume_sol'] > 1000 or confidence > 0.5"
is_logged_whale(token_data, confidence) ==
    token_data.volume_sol > 1000 \/ 2 * confidence > FinalUnit

\* whether parse_final_token_array gets to "await self.discover_final_whale":
\* "if confidence >= 0.25" stands inside the body of the logging test
reaches_discover(token_data, confidence) ==
    is_logged_whale(token_data, confidence) /\ 4 * confidence >= FinalUnit

\* discover_final_whale's dict write
discover_final_whale(whales, token_data) ==
    LET wallet == token_data.creator_address
    IN IF wallet \in DOMAIN whales THEN whales
       ELSE [w \in DOMAIN whales \cup {wallet} |->
                IF w = wallet
                THEN [volume_sol |-> token_data.volume_sol,
                      confidence_score |-> calculate_final_score(token_data)]
                ELSE whales[w]]

FinalInit ==
    /\ fin_whales = << >>
    /\ fin_metrics = [whales_discovered |-> 0, auto_added |-> 0]
    /\ fin_tracked = << >>
    /\ fin_log = << >>

\* the script's variables while it is not the one being run
FinalIdle == FinalInit

\* one turn of process_final_queue's loop on a list: the length test,
\* parse_final_token_array, discover_final_whale and auto_add_final_whale
ProcessFinalItem ==
    /\ Len(fin_log) < MaxFinalItems
    /\ \E len \in FinalLengths, wallet \in Wallets, volume \in FinalVolumes,
          io_ok \in BOOLEAN :
          LET token_data == [creator_address |-> wallet, volume_sol |-> volume]
              confidence == calculate_final_score(token_data)
              parsed == is_final_token_array(len)
              passed == parsed /\ reaches_discover(token_data, confidence)
              created == passed /\ wallet \notin DOMAIN fin_whales
              added == created /\ 100 * confidence >= 45 * FinalUnit
          IN /\ fin_whales' = IF passed
                              THEN discover_final_whale(fin_whales, token_data)
                              ELSE fin_whales
             /\ fin_metrics' =
                   [whales_discovered |-> fin_metrics.whales_discovered
                                             + (IF created THEN 1 ELSE 0),
                    auto_added |-> fin_metrics.auto_added
                                       + (IF added THEN 1 ELSE 0)]
             /\ fin_tracked' = IF added /\ io_ok
                               THEN Append(fin_tracked, wallet)
                               ELSE fin_tracked
             /\ fin_log' = Append(fin_log,
                              [len |-> len, wallet |-> wallet, volume |-> volume,
                               confidence |-> confidence, parsed |-> parsed,
                               passed |-> passed, created |-> created])
    /\ UNCHANGED notFinal

FinalNext == ProcessFinalItem

(***************************************************************************)
(* process_queue, analyze_whale_transaction (on the thread pool) and       *)
(* handle_discovered_whale (python_whale_discovery)                        *)
(***************************************************************************)
\* confidence scores of the transactions in the queue, in thousandths
PyScores == {200, 450, 600}

\* transactions taken from the queue in one batch (the source takes up to
\* 10; the pool runs min(cpu_cores, 4) of them at a time)
MaxPyBatch == 2

\* transactions processed in one run
MaxPyTransactions == 3

\* config['discovery_threshold'], thousandths
py_discovery_threshold == 250

PyTransactions == [wallet : Wallets, score : PyScores]

PyBatches == UNION {[1..n -> PyTransactions] : n \in 1..MaxPyBatch}

\* the classes of the script that define a to_dict method: TokenData does
\* (line 40), the dataclass WhaleTransaction has fields only
has_to_dict(class) == class = "TokenData"

\* handle_discovered_whale(transaction), with the exception it raises if any
handle_discovered_whale(whales, tracked, tx, io_ok) ==
    LET wallet == tx.wallet
        created == IF wallet \in DOMAIN whales THEN whales
                   ELSE [w \in DOMAIN whales \cup {wallet} |->
                            IF w = wallet
                            THEN [score |-> tx.score, transactions |-> 0]
                            ELSE whales[w]]
        appended == [created EXCEPT ![wallet].transactions = @ + 1]
        updated == IF tx.score > appended[wallet].score
                   THEN [appended EXCEPT ![wallet].score = tx.score]
                   ELSE appended
    IN IF ~has_to_dict("WhaleTransaction")
       THEN \* "transaction.to_dict()" raises AttributeError
            [whales |-> created, tracked |-> tracked, raised |-> TRUE]
       ELSE [whales |-> updated,
             tracked |-> IF tx.score >= auto_add_threshold /\ io_ok
                         THEN Append(tracked, wallet)
                         ELSE tracked,
             raised |-> FALSE]

PyInit ==
    /\ py_pc = "idle"
    /\ py_batch = << >>
    /\ py_thread = << >>
    /\ py_next = 1
    /\ py_base = 0
    /\ py_taken = 0
    /\ py_metrics = [whales_discovered |-> 0]
    /\ py_whales = << >>
    /\ py_tracked = << >>
    /\ py_log = << >>
    /\ py_errors = 0

\* the script's variables while it is not the one being run
PyIdle ==
    /\ py_pc = "off"
    /\ py_batch = << >>
    /\ py_thread = << >>
    /\ py_next = 1
    /\ py_base = 0
    /\ py_taken = 0
    /\ py_metrics = [whales_discovered |-> 0]
    /\ py_whales = << >>
    /\ py_tracked = << >>
    /\ py_log = << >>
    /\ py_errors = 0

\* process_queue takes a batch off the queue and submits one
\* analyze_whale_transaction per transaction to the executor
PyTakeBatch ==
    /\ py_pc = "idle"
    /\ \E batch \in PyBatches :
          /\ py_taken + Len(batch) <= MaxPyTransactions
          /\ py_batch' = batch
          /\ py_thread' = [i \in 1..Len(batch) |-> [pc |-> "queued", loaded |-> 0]]
    /\ py_pc' = "batch"
    /\ py_next' = 1
    /\ py_base' = py_metrics.whales_discovered
    /\ py_taken' = py_taken + Len(py_batch')
    /\ UNCHANGED <<py_metrics, py_whales, py_tracked, py_log, py_errors>>
    /\ UNCHANGED notPy

\* a worker thread runs analyze_whale_transaction up to the read of
\* "self.metrics['whales_discovered'] += 1" (or to its return below the
\* discovery threshold)
PyAnalyze(i) ==
    /\ py_pc = "batch"
    /\ i \in 1..Len(py_thread)
    /\ py_thread[i].pc = "queued"
    /\ py_thread' = [py_thread EXCEPT ![i] =
          IF py_batch[i].score >= py_discovery_threshold
          THEN [pc |-> "loaded", loaded |-> py_metrics.whales_discovered]
          ELSE [pc |-> "done", loaded |-> 0]]
    /\ UNCHANGED <<py_pc, py_batch, py_next, py_base, py_taken, py_metrics,
                   py_whales, py_tracked, py_log, py_errors>>
    /\ UNCHANGED notPy

\* the same thread stores the value it read plus one and returns the
\* transaction
PyStore(i) ==
    /\ py_pc = "batch"
    /\ i \in 1..Len(py_thread)
    /\ py_thread[i].pc = "loaded"
    /\ py_metrics' = [py_metrics EXCEPT
                         !.whales_discovered = py_thread[i].loaded + 1]
    /\ py_thread' = [py_thread EXCEPT ![i].pc = "done"]
    /\ UNCHANGED <<py_pc, py_batch, py_next, py_base, py_taken,
                   py_whales, py_tracked, py_log, py_errors>>
    /\ UNCHANGED notPy

\* process_queue gets the next future's result and, if it is a
\* transaction, awaits handle_discovered_whale; an exception is logged
PyHandleResult ==
    /\ py_pc = "batch"
    /\ py_next <= Len(py_batch)
    /\ py_thread[py_next].pc = "done"
    /\ LET tx == py_batch[py_next]
       IN IF tx.score >= py_discovery_threshold
          THEN \E io_ok \in BOOLEAN :
                  LET r == handle_discovered_whale(py_whales, py_tracked, tx, io_ok)
                  IN /\ py_whales' = r.whales
                     /\ py_tracked' = r.tracked
                     /\ py_errors' = py_errors + (IF r.raised THEN 1 ELSE 0)
                     /\ py_log' = Append(py_log, tx)
          ELSE UNCHANGED <<py_whales, py_tracked, py_errors, py_log>>
    /\ py_next' = py_next + 1
    /\ UNCHANGED <<py_pc, py_batch, py_thread, py_base, py_taken, py_metrics>>
    /\ UNCHANGED notPy

\* every future of the batch was waited for: "await asyncio.sleep(0.1)"
PyBatchDone ==
    /\ py_pc = "batch"
    /\ py_next > Len(py_batch)
    /\ py_pc' = "idle"
    /\ UNCHANGED <<py_batch, py_thread, py_next, py_base, py_taken, py_metrics,
                   py_whales, py_tracked, py_log, py_errors>>
    /\ UNCHANGED notPy

PyNext ==
    \/ PyTakeBatch
    \/ \E i \in 1..MaxPyBatch : PyAnalyze(i)
    \/ \E i \in 1..MaxPyBatch : PyStore(i)
    \/ PyHandleResult
    \/ PyBatchDone

(***************************************************************************)
(* The three signal handlers of axiom_master_trading_system                *)
(***************************************************************************)
\* "if len(self.live_signals) > 100: self.live_signals = self.live_signals[-100:]"
max_live_signals == 100

\* len(self.live_signals) when the messages below start to arrive: the list
\* holds that many cluster7 signals, from as many new_pairs messages
MasterBacklogs == {0, 99, 100}

\* messages handled in one run
MaxMasterMessages == 3

\* how many of the first five trades of a Hyperliquid trades message have
\* sz >= 100 (confidence min(60 + sz / 10, 85) >= 70)
LargeTrades == {0, 1, 5}

\* len(data) of the Eucalyptus arrays that pass "len(data) > 20"
EucalyptusLengths == {21, 26}

RECURSIVE Repeat(_, _)
Repeat(x, n) == IF n = 0 THEN << >> ELSE <<x>> \o Repeat(x, n - 1)

\* "self.live_signals.append(signal)" and the trim after it
append_goldmine(signals, signal) ==
    LET appended == Append(signals, signal)
    IN IF Len(appended) > max_live_signals
       THEN SubSeq(appended, Len(appended) - max_live_signals + 1, Len(appended))
       ELSE appended

MasterInit ==
    /\ \E n \in MasterBacklogs : live_signals = Repeat("cluster7_goldmine", n)
    /\ ms_metrics = [cluster7_signals |-> 0, hyperliquid_signals |-> 0,
                     eucalyptus_signals |-> 0]

\* the script's variables while it is not the one being run
MasterIdle ==
    /\ live_signals = << >>
    /\ ms_metrics = [cluster7_signals |-> 0, hyperliquid_signals |-> 0,
                     eucalyptus_signals |-> 0]

MasterHandled ==
    ms_metrics.cluster7_signals + ms_metrics.hyperliquid_signals
        + ms_metrics.eucalyptus_signals

\* handle_new_pairs_goldmine on one new_pairs message
HandleNewPairsGoldmine ==
    /\ MasterHandled < MaxMasterMessages
    /\ ms_metrics' = [ms_metrics EXCEPT !.cluster7_signals = @ + 1]
    /\ \E content_is_dict \in BOOLEAN :
          live_signals' = IF content_is_dict
                          THEN append_goldmine(live_signals, "cluster7_goldmine")
                          ELSE live_signals
    /\ UNCHANGED notMaster

\* handle_hyperliquid_signal on one allMids, trades or l2Book message
HandleHyperliquidSignal ==
    /\ MasterHandled < MaxMasterMessages
    /\ ms_metrics' = [ms_metrics EXCEPT !.hyperliquid_signals = @ + 1]
    /\ \E channel \in {"allMids", "trades"}, large \in LargeTrades :
          live_signals' = IF channel = "trades"
                          THEN live_signals
                                   \o Repeat("hyperliquid_derivatives", large)
                          ELSE live_signals
    /\ UNCHANGED notMaster

\* handle_eucalyptus_signal on one array of more than 20 elements
HandleEucalyptusSignal ==
    /\ MasterHandled < MaxMasterMessages
    /\ ms_metrics' = [ms_metrics EXCEPT !.eucalyptus_signals = @ + 1]
    /\ \E len \in EucalyptusLengths :
          live_signals' = IF len > 25
                          THEN Append(live_signals, "eucalyptus_transactions")
                          ELSE live_signals
    /\ UNCHANGED notMaster

MasterNext ==
    \/ HandleNewPairsGoldmine
    \/ HandleHyperliquidSignal
    \/ HandleEucalyptusSignal

(***************************************************************************)
(* cluster7_goldmine_with_refresh and connect_cluster7_with_retries        *)
(* (auto_refresh_trading_system).  Sleeps are counted in half seconds:     *)
(* asyncio.sleep(0.5) is 1, asyncio.sleep(2) is 4.                         *)
(***************************************************************************)
\* connection attempts made in one run
MaxRefreshConnects == 4

\* messages handled in one run
MaxRefreshSignals == 1

\* "max_retries = 3" of connect_cluster7_with_retries
refresh_max_retries == 3

\* what websockets.connect does: the handshake succeeds, is answered with an
\* HTTP status, or fails otherwise (refused, timed out, DNS)
ConnectOutcomes == {"connected", "401", "403", "429", "error"}

\* how many of the nine subscription messages go out before a send raises
SentBeforeFailure == {0, 9}

\* the loop test "while retry_count < max_retries and self.running" after
\* "continue"; when it fails the function returns and
\* cluster7_goldmine_with_refresh calls it again with retry_count = 0
after_continue(retries) ==
    IF retries < refresh_max_retries THEN retries ELSE 0

RefreshInit ==
    /\ ar_pc = "connect"
    /\ ar_retry = 0
    /\ ar_slept = 0
    /\ ar_log = << >>
    /\ ar_signals = 0

\* the script's variables while it is not the one being run
RefreshIdle ==
    /\ ar_pc = "off"
    /\ ar_retry = 0
    /\ ar_slept = 0
    /\ ar_log = << >>
    /\ ar_signals = 0

\* websockets.connect is called; on a status other than 401 and on any
\* other exception the function breaks out of its loop and returns, and the
\* caller's "while self.running" calls it again
ArConnect ==
    /\ ar_pc = "connect"
    /\ Len(ar_log) < MaxRefreshConnects
    /\ \E outcome \in ConnectOutcomes :
          /\ ar_log' = Append(ar_log, [outcome |-> outcome, delay |-> ar_slept])
          /\ ar_pc' = IF outcome = "connected" THEN "subscribing"
                      ELSE IF outcome = "401" THEN "refreshing"
                      ELSE "connect"
          /\ ar_retry' = IF outcome = "401" THEN ar_retry ELSE 0
    /\ ar_slept' = 0
    /\ UNCHANGED ar_signals
    /\ UNCHANGED notRefresh

\* refresh_access_token returns: on success one more retry after 2 s, on
\* failure 60 s of sleep and break
ArRefreshed ==
    /\ ar_pc = "refreshing"
    /\ \E refresh_success \in BOOLEAN :
          IF refresh_success
          THEN /\ ar_retry' = after_continue(ar_retry + 1)
               /\ ar_slept' = ar_slept + 4
          ELSE /\ ar_retry' = 0
               /\ ar_slept' = ar_slept + 120
    /\ ar_pc' = "connect"
    /\ UNCHANGED <<ar_log, ar_signals>>
    /\ UNCHANGED notRefresh

\* subscribe_cluster7_goldmine: nine sends, 0.5 s after each; a send that
\* raises lands in "except Exception: break"
ArSubscribed ==
    /\ ar_pc = "subscribing"
    /\ \E sent \in SentBeforeFailure :
          /\ ar_slept' = ar_slept + sent
          /\ ar_pc' = IF sent = 9 THEN "processing" ELSE "connect"
    /\ UNCHANGED <<ar_retry, ar_log, ar_signals>>
    /\ UNCHANGED notRefresh

\* process_cluster7_with_refresh reads one message
ArMessage ==
    /\ ar_pc = "processing"
    /\ ar_signals < MaxRefreshSignals
    /\ ar_signals' = ar_signals + 1
    /\ UNCHANGED <<ar_pc, ar_retry, ar_slept, ar_log>>
    /\ UNCHANGED notRefresh

\* the connection ends (ConnectionClosed, or an error while processing):
\* process_cluster7_with_refresh logs and returns, the "async with" is
\* left and the loop goes round with retry_count = 0
ArConnectionEnds ==
    /\ ar_pc = "processing"
    /\ ar_pc' = "connect"
    /\ UNCHANGED <<ar_retry, ar_slept, ar_log, ar_signals>>
    /\ UNCHANGED notRefresh

RefreshNext ==
    \/ ArConnect
    \/ ArRefreshed
    \/ ArSubscribed
    \/ ArMessage
    \/ ArConnectionEnds

(***************************************************************************)
(* shutdown (ultimate_whale_discovery) running beside the listener tasks:  *)
(* "for endpoint, ws in self.ws_connections.items(): await ws.close()".    *)
(* A dict iterator remembers the size of the dict it was made for, and     *)
(* its next step raises RuntimeError when the size is another by then.     *)
(***************************************************************************)
NoEndpoint == "none"

\* the for statement asks the iterator for the next item: RuntimeError when
\* the dict has changed size, the next key not yet visited otherwise, the
\* loop's end when there is none
dict_iter_next(keys, size, visited) ==
    IF Cardinality(keys) # size THEN [raised |-> TRUE, keys |-> {}]
    ELSE [raised |-> FALSE, keys |-> keys \ visited]

ShutdownInit ==
    /\ sd_pc = "idle"
    /\ sd_current = NoEndpoint
    /\ sd_size = 0
    /\ sd_visited = {}
    /\ sd_saved = FALSE

\* shutdown's variables while it is not run
ShutdownIdle ==
    /\ sd_pc = "off"
    /\ sd_current = NoEndpoint
    /\ sd_size = 0
    /\ sd_visited = {}
    /\ sd_saved = FALSE

\* the handlers when shutdown is called: some of them are listening on a
\* connection (their entry is in ws_connections), the others are between
\* two attempts
HandlersConnected ==
    /\ running = TRUE
    /\ ws_connections \in SUBSET Endpoints
    /\ h_pc = [e \in Endpoints |->
                  IF e \in ws_connections THEN "listening" ELSE "loop"]
    /\ retry_count = [e \in Endpoints |-> 0]
    /\ h_exit = [e \in Endpoints |-> "none"]
    /\ h_frames = 0
    /\ h_forbidden = {}
    /\ h_after403 = [e \in Endpoints |-> {}]
    /\ monitor_pc = "running"
    /\ coordinator = "gathering"
    /\ h_after_failure = {}
    /\ h_wait = [e \in Endpoints |-> 0]
    /\ h_sub_errors = {}

\* what the for statement does with the iterator's answer: leave shutdown
\* with the exception, go on to save_discoveries, or await the next close
ShutdownStep(keys, size, visited) ==
    LET r == dict_iter_next(keys, size, visited)
    IN IF r.raised
       THEN /\ sd_pc' = "raised"
            /\ sd_current' = NoEndpoint
            /\ sd_saved' = FALSE
       ELSE IF r.keys = {}
       THEN /\ sd_pc' = "complete"
            /\ sd_current' = NoEndpoint
            /\ sd_saved' = TRUE
       ELSE /\ sd_pc' = "closing"
            /\ sd_current' \in r.keys
            /\ sd_saved' = FALSE

\* shutdown is called: self.running = False, the iterator is made and the
\* first ws.close() is awaited (or, with no connection, save_discoveries)
ShutdownBegin ==
    /\ sd_pc = "idle"
    /\ running' = FALSE
    /\ sd_size' = Cardinality(ws_connections)
    /\ sd_visited' = {}
    /\ ShutdownStep(ws_connections, Cardinality(ws_connections), {})
    /\ UNCHANGED <<h_pc, retry_count, h_exit, ws_connections, h_frames,
                   h_forbidden, h_after403, monitor_pc, coordinator,
                   h_after_failure, h_wait, h_sub_errors>>
    /\ UNCHANGED notShutdownHandler

\* "await ws.close()" is over (returned, or raised into the bare except):
\* the for statement takes the next item
ShutdownCloseReturns ==
    /\ sd_pc = "closing"
    /\ sd_visited' = sd_visited \cup {sd_current}
    /\ ShutdownStep(ws_connections, sd_size, sd_visited \cup {sd_current})
    /\ UNCHANGED sd_size
    /\ UNCHANGED handlerVars
    /\ UNCHANGED notShutdownHandler

ShutdownNext ==
    \/ ShutdownBegin
    \/ ShutdownCloseReturns
    \/ \E e \in Endpoints :
        \/ HFrame(e)
        \/ HListenEnds(e)
        \/ HLoopExit(e)

\* the components of the other scripts while they are not run
LaterIdle ==
    FinalIdle /\ PyIdle /\ MasterIdle /\ RefreshIdle /\ ShutdownIdle

(***************************************************************************)
(* Specifications                                                          *)
(***************************************************************************)
GovIdle == GovInit
HandlerIdle == HandlerInit
QueueIdle == QueueInit

InitStore == StoreInit /\ GovIdle /\ HandlerIdle /\ QueueIdle /\ ScorerIdle /\ ListenIdle /\ RecordIdle /\ ArrayIdle /\ LaterIdle
SpecStore == InitStore /\ [][StoreNext]_vars

InitGov == GovInit /\ StoreIdle /\ HandlerIdle /\ QueueIdle /\ ScorerIdle /\ ListenIdle /\ RecordIdle /\ ArrayIdle /\ LaterIdle
SpecGov == InitGov /\ [][GovNext]_vars

InitSafe == GovInit /\ StoreIdle /\ HandlerIdle /\ QueueIdle /\ ScorerIdle /\ ListenIdle /\ RecordIdle /\ ArrayIdle /\ LaterIdle
SpecSafe == InitSafe /\ [][SafeNext]_vars

InitHandler == HandlerInit /\ StoreIdle /\ GovIdle /\ QueueIdle /\ ScorerIdle /\ ListenIdle /\ RecordIdle /\ ArrayIdle /\ LaterIdle
SpecHandler == InitHandler /\ [][HandlerNext]_vars

InitQueue == QueueInit /\ StoreIdle /\ GovIdle /\ HandlerIdle /\ ScorerIdle /\ ListenIdle /\ RecordIdle /\ ArrayIdle /\ LaterIdle
SpecQueue == InitQueue /\ [][QueueNext]_vars

InitScorer ==
    ScorerInit /\ StoreIdle /\ GovIdle /\ HandlerIdle /\ QueueIdle /\ ListenIdle /\ RecordIdle /\ ArrayIdle /\ LaterIdle
SpecScorer == InitScorer /\ [][ScorerNext]_vars

InitListen ==
    /\ ListenInit /\ StoreInit /\ script = "ultimate"
    /\ GovIdle /\ HandlerIdle /\ QueueIdle /\ ScorerIdle /\ RecordIdle /\ ArrayIdle /\ LaterIdle
SpecListen == InitListen /\ [][ListenNext]_vars

InitRecord ==
    /\ RecordInit /\ StoreInit /\ script = "ultimate"
    /\ GovIdle /\ HandlerIdle /\ QueueIdle /\ ScorerIdle /\ ListenIdle /\ ArrayIdle /\ LaterIdle
SpecRecord == InitRecord /\ [][RecordNext]_vars

InitArray ==
    /\ ArrayInit /\ StoreInit /\ script = "ultimate"
    /\ GovIdle /\ HandlerIdle /\ QueueIdle /\ ScorerIdle /\ ListenIdle /\ RecordIdle /\ LaterIdle
SpecArray == InitArray /\ [][ArrayNext]_vars

InitFinal ==
    /\ FinalInit /\ PyIdle /\ MasterIdle /\ RefreshIdle /\ ShutdownIdle
    /\ StoreIdle /\ GovIdle /\ HandlerIdle /\ QueueIdle /\ ScorerIdle
    /\ ListenIdle /\ RecordIdle /\ ArrayIdle
SpecFinal == InitFinal /\ [][FinalNext]_vars

InitPy ==
    /\ PyInit /\ FinalIdle /\ MasterIdle /\ RefreshIdle /\ ShutdownIdle
    /\ StoreIdle /\ GovIdle /\ HandlerIdle /\ QueueIdle /\ ScorerIdle
    /\ ListenIdle /\ RecordIdle /\ ArrayIdle
SpecPy == InitPy /\ [][PyNext]_vars

InitMaster ==
    /\ MasterInit /\ FinalIdle /\ PyIdle /\ RefreshIdle /\ ShutdownIdle
    /\ StoreIdle /\ GovIdle /\ HandlerIdle /\ QueueIdle /\ ScorerIdle
    /\ ListenIdle /\ RecordIdle /\ ArrayIdle
SpecMaster == InitMaster /\ [][MasterNext]_vars

InitRefresh ==
    /\ RefreshInit /\ FinalIdle /\ PyIdle /\ MasterIdle /\ ShutdownIdle
    /\ StoreIdle /\ GovIdle /\ HandlerIdle /\ QueueIdle /\ ScorerIdle
    /\ ListenIdle /\ RecordIdle /\ ArrayIdle
SpecRefresh == InitRefresh /\ [][RefreshNext]_vars

InitShutdown ==
    /\ ShutdownInit /\ HandlersConnected
    /\ FinalIdle /\ PyIdle /\ MasterIdle /\ RefreshIdle
    /\ StoreIdle /\ GovIdle /\ QueueIdle /\ ScorerIdle
    /\ ListenIdle /\ RecordIdle /\ ArrayIdle
SpecShutdown == InitShutdown /\ [][ShutdownNext]_vars

(***************************************************************************)
(* Claims about the discovery store (checked under SpecStore)              *)
(***************************************************************************)

\* C1: after any sequence of record calls for any mix of wallets each wallet
\* address maps to zero or one record: a record is created for a wallet at
\* most once, it is stored under its own address, and the number of records
\* created (whales_discovered) is the number of wallets stored.
C1_OneRecordPerWallet ==
    /\ \A w \in DOMAIN discovered_whales :
          w \in Wallets /\ discovered_whales[w].whale_address = w
    /\ \A w \in Wallets :
          /\ Creations(w) <= 1
          /\ (Creations(w) = 1) <=> (w \in DOMAIN discovered_whales)
    /\ metrics.whales_discovered = Cardinality(DOMAIN discovered_whales)

\* C1 witness: a wallet was fed twice and every wallet has its record
C1_Witness ==
    /\ DOMAIN discovered_whales = Wallets
    /\ \E w \in Wallets : Len(LogOf(w)) >= 2

\* the stored score of every wallet that was fed is the largest score fed
C2_StoredIsMaxFed ==
    \A w \in Wallets :
        Len(LogOf(w)) > 0 =>
            /\ w \in DOMAIN discovered_whales
            /\ discovered_whales[w].confidence_score = SeqMax(FedScores(w))

\* scores 0.3, 0.5, 0.2 fed in that order end at 0.5 with one record
C2_Scenario ==
    \A w \in Wallets :
        FedScores(w) = <<300, 500, 200>> =>
            /\ w \in DOMAIN discovered_whales
            /\ discovered_whales[w].confidence_score = 500
            /\ Creations(w) = 1

\* a record call never removes a record and never lowers a stored score
C2_StepMonotone ==
    \A w \in DOMAIN discovered_whales :
        /\ w \in DOMAIN discovered_whales'
        /\ discovered_whales'[w].confidence_score
              >= discovered_whales[w].confidence_score

\* C2: a Discovery's bestScore never decreases: after every record call the
\* stored score is >= the stored score before it (it is the maximum of the
\* scores fed), and 0.3, 0.5, 0.2 fed for one wallet end at 0.5 with exactly
\* one record.
C2_BestScoreMonotone ==
    /\ [](C2_StoredIsMaxFed /\ C2_Scenario)
    /\ [][C2_StepMonotone]_vars

\* C2 witness: the 0.3, 0.5, 0.2 scenario has been fed to a wallet
C2_Witness ==
    \E w \in Wallets :
        /\ FedScores(w) = <<300, 500, 200>>
        /\ discovered_whales[w].confidence_score = 500

C4_AboveThresholdPromoted ==
    \A w \in DOMAIN discovered_whales :
        ReachesAutoAdd(discovered_whales[w].confidence_score) => Promotions(w) >= 1

(***************************************************************************)
(* Claims about the rate-limit governor (checked under SpecGov)            *)
(***************************************************************************)
\* the allowed attempts up to attempt i that lie within 60 s before it
AllowedInWindow(i) ==
    {j \in 1..i : /\ attempt_log[j].allowed
                  /\ attempt_log[i].time - attempt_log[j].time <= rate_window}

\* C5: when 4 connection attempts are submitted to a fresh governor within 10
\* seconds, the 4th is refused with a positive number of seconds to wait; and
\* no more than the quota (3) of connection attempts is allowed within any
\* sliding 60-second window.
C5_ConnectionQuota ==
    /\ (/\ Len(attempt_log) >= 4
        /\ attempt_log[4].time - attempt_log[1].time <= 10)
       => (~attempt_log[4].allowed /\ attempt_log[4].remaining > 0)
    /\ \A i \in 1..Len(attempt_log) :
          attempt_log[i].allowed =>
              Cardinality(AllowedInWindow(i)) <= connection_attempts_per_minute

\* C5 witness: four attempts within 10 s, the first allowed, the fourth refused
C5_Witness ==
    /\ Len(attempt_log) >= 4
    /\ attempt_log[4].time - attempt_log[1].time <= 10
    /\ attempt_log[1].allowed
    /\ ~attempt_log[4].allowed


\* an allowed check is recorded in the step that makes it
C17_RecordedWithCheck ==
    /\ gov_pending = {}
    /\ \A i \in 1..Len(attempt_log) :
          attempt_log[i].allowed =>
              \E k \in 1..Len(connection_attempts) :
                  connection_attempts[k] = attempt_log[i].time
                  \/ now - attempt_log[i].time >= rate_window

\* no two callers are allowed within the same minimum interval
C17_NoSharedSlot ==
    \A i, j \in 1..Len(attempt_log) :
        (i < j /\ attempt_log[i].allowed /\ attempt_log[j].allowed)
            => attempt_log[j].time - attempt_log[i].time >= min_connection_interval

\* C17: optimistic reservation: an allowed check records the attempt in the
\* same atomic step, so no other caller's check runs between an allowed
\* check and its record, and two concurrent callers are never both allowed
\* the same slot.
C17_AtomicReservation == C17_RecordedWithCheck /\ C17_NoSharedSlot

\* C17 witness: two callers checked at the same instant; the first was
\* allowed and the second, seeing the record, was refused
C17_Witness ==
    /\ Len(attempt_log) >= 2
    /\ attempt_log[1].task # attempt_log[2].task
    /\ attempt_log[1].time = attempt_log[2].time
    /\ attempt_log[1].allowed /\ ~attempt_log[2].allowed

\* C23: when a seen wallet gets an event with a confidence above the stored
\* score, the stored score and the stored event data are both replaced:
\* after the call the record holds the new confidence and the token of the
\* higher-scoring event.
C23_BestEventReplaced ==
    \A i \in 1..Len(call_log) :
        LET c == call_log[i]
            later == {j \in (i + 1)..Len(call_log) : call_log[j].wallet = c.wallet}
            earlier == {call_log[j].score : j \in {k \in 1..(i - 1) :
                                                   call_log[k].wallet = c.wallet}}
        IN (script = "ultimate" /\ later = {} /\ earlier # {}
            /\ \A sc \in earlier : c.score > sc)
              => /\ discovered_whales[c.wallet].confidence_score = c.score
                 /\ discovered_whales[c.wallet].token_ticker = c.token


(***************************************************************************)
(* Claims about concurrent record calls (checked under SpecRecord)         *)
(***************************************************************************)
\* the confidences recorded so far for wallet w
RecordedFor(w) ==
    {call_log[i].score : i \in {j \in 1..Len(call_log) : call_log[j].wallet = w}}

\* C24: record is atomic per wallet: when two tasks record events for the
\* same wallet concurrently, every interleaving leaves exactly one record
\* for that wallet, holding the maximum of the scores recorded.
C24_AtomicPerWallet ==
    /\ \A t \in RecordTasks : rec_pc[t] \in {"ready", "done"}
    /\ \A w \in Wallets :
          IF RecordedFor(w) = {}
          THEN w \notin DOMAIN discovered_whales
          ELSE /\ w \in DOMAIN discovered_whales
               /\ discovered_whales[w].confidence_score \in RecordedFor(w)
               /\ \A sc \in RecordedFor(w) :
                     discovered_whales[w].confidence_score >= sc
               /\ Cardinality({i \in 1..Len(call_log) :
                                  call_log[i].wallet = w /\ call_log[i].created}) = 1

\* C24 witness: both tasks have recorded the same wallet, the later call
\* with the lower confidence
C24_Witness ==
    /\ \A t \in RecordTasks : rec_pc[t] = "done"
    /\ rec_arg["cluster7"].wallet = rec_arg["eucalyptus"].wallet
    /\ Len(call_log) = 2
    /\ call_log[1].score > call_log[2].score
    /\ discovered_whales[call_log[1].wallet].confidence_score = call_log[1].score


(***************************************************************************)
(* Claims about positional arrays (checked under SpecArray)                *)
(***************************************************************************)
\* the values of the block above 10,000, in encounter order
VolumeCandidates(block) == SelectSeq(block, LAMBDA val : val > 10000)

\* the values of the block in (100, 10,000], in encounter order
LiquidityCandidates(block) ==
    SelectSeq(block, LAMBDA val : val > 100 /\ val <= 10000)

\* C28: scenario A: the positional array with ticker "RUMOR", platform
\* "Raydium CLMM", website, twitter and telegram present and 13600.0 at a
\* volume-range position normalizes to an event with volume 13600.0 and gets
\* a score of at least 0.8.
C28_ScenarioA ==
    (/\ arr_pc = "scored"
     /\ arr_in.meta = "scenario_a"
     /\ VolumeCandidates(arr_in.block) # << >>
     /\ Head(VolumeCandidates(arr_in.block)) = 13600)
        => /\ arr_out.volume_sol = 13600
           /\ arr_out.confidence >= 800


\* the i-th element of a sequence, 0 when it has none
NthOrZero(seq, i) == IF Len(seq) >= i THEN seq[i] ELSE 0

\* C29: scanning the numeric block in encounter order, the first value above
\* 10,000 becomes the volume and the second the market cap; the first value
\* in (100, 10,000] becomes the liquidity; every later candidate and every
\* value of at most 100 leaves the three fields as they are.
C29_MagnitudeHeuristic ==
    arr_pc = "scored" =>
        /\ arr_out.volume_sol = NthOrZero(VolumeCandidates(arr_in.block), 1)
        /\ arr_out.market_cap_sol = NthOrZero(VolumeCandidates(arr_in.block), 2)
        /\ arr_out.liquidity_sol = NthOrZero(LiquidityCandidates(arr_in.block), 1)

\* C29 witness: a block with two values above 10,000, a value below 100 and
\* the boundary value 10,000, which is a liquidity candidate
C29_Witness ==
    /\ arr_pc = "scored"
    /\ arr_in.block = <<13600, 20000, 50, 10000>>
    /\ arr_out.volume_sol = 13600
    /\ arr_out.market_cap_sol = 20000
    /\ arr_out.liquidity_sol = 10000

\* C30: every top-level array frame with at least 25 fields, one with
\* exactly 25 included, is normalized as a positional array: it reaches
\* process_token_array and is scored.
C30_ArraysOf25Parsed ==
    (arr_pc \notin {"input", "off"} /\ arr_in.len >= 25)
        => arr_pc \in {"array", "scored"}


(***************************************************************************)
(* Claims about the supervisor of ultimate_whale_discovery_safe (SpecSafe) *)
(***************************************************************************)
\* the allowed attempts before attempt i
AllowedBefore(i) == {j \in 1..(i - 1) : attempt_log[j].allowed}

\* every attempt that comes less than 30 s after an allowed one is refused
C6_TooSoonRefused ==
    \A i \in 1..Len(attempt_log) :
        (\E j \in AllowedBefore(i) :
            attempt_log[i].time - attempt_log[j].time < min_connection_interval)
        => ~attempt_log[i].allowed

\* websockets.connect is called once per allowed attempt, at its time
C6_ConnectOnlyWhenAllowed ==
    /\ Len(connect_log) = Cardinality({i \in 1..Len(attempt_log) :
                                          attempt_log[i].allowed})
    /\ \A k \in 1..Len(connect_log) :
          \E i \in 1..Len(attempt_log) :
              attempt_log[i].allowed /\ attempt_log[i].time = connect_log[k].time

\* the step that logs a refusal calls no connect and starts the 30 s wait
C6_RefusalStep ==
    (/\ Len(attempt_log') = Len(attempt_log) + 1
     /\ ~attempt_log'[Len(attempt_log')].allowed)
    => /\ connect_log' = connect_log
       /\ safe_pc' = "backoff"
       /\ safe_wait' = min_connection_interval

\* C6: a connection attempt arriving less than 30 seconds after the previous
\* allowed attempt is refused by the governor, and on that refusal the
\* supervisor goes to its backoff wait without calling the transport.
C6_MinInterval ==
    /\ [](C6_TooSoonRefused /\ C6_ConnectOnlyWhenAllowed)
    /\ [][C6_RefusalStep]_vars

\* C6 witness: an attempt 10 s after an allowed one was refused, the
\* supervisor is in its backoff wait and only the first attempt reached the
\* transport
C6_Witness ==
    /\ Len(attempt_log) = 2
    /\ attempt_log[1].allowed
    /\ ~attempt_log[2].allowed
    /\ attempt_log[2].time - attempt_log[1].time = 10
    /\ safe_pc = "backoff"
    /\ Len(connect_log) = 1

(***************************************************************************)
(* Claims about websocket_connection_handler (checked under SpecHandler)   *)
(***************************************************************************)
\* no connect call to an endpoint follows a 403 answer from it
C7_NoConnectAfter403 ==
    \A e \in Endpoints :
        e \in h_forbidden => (h_pc[e] = "exited" /\ e \notin h_after403[e])

\* the step in which an endpoint answers 403 changes no other handler, and a
\* handler that has left its loop stays out of it
C7_OthersUntouched ==
    \A e \in Endpoints :
        /\ (e \notin h_forbidden /\ e \in h_forbidden')
           => \A o \in Endpoints \ {e} :
                 /\ h_pc'[o] = h_pc[o]
                 /\ retry_count'[o] = retry_count[o]
                 /\ h_exit'[o] = h_exit[o]
        /\ h_pc[e] = "exited" => h_pc'[e] = "exited"

\* C7: after a source answers a connection attempt with HTTP 403 its handler
\* makes no further connection attempt to that source for the rest of the
\* run, while the handlers of the other sources are left as they are and go
\* on connecting.
C7_FatalIsTerminal ==
    /\ []C7_NoConnectAfter403
    /\ [][C7_OthersUntouched]_vars

\* C7 witness: one endpoint answered 403 and left its loop, and the other
\* endpoint has connected again after that
C7_Witness ==
    \E e \in Endpoints :
        /\ e \in h_forbidden /\ h_exit[e] = "forbidden"
        /\ h_after403[e] = Endpoints \ {e}
        /\ \A o \in Endpoints \ {e} : h_pc[o] = "listening"


\* a step moves one task only, and never clears self.running
C11_OneTaskPerStep ==
    /\ running => running'
    /\ \A e \in Endpoints :
          h_pc'[e] # h_pc[e] =>
              /\ monitor_pc' = monitor_pc
              /\ \A o \in Endpoints \ {e} :
                    h_pc'[o] = h_pc[o] /\ retry_count'[o] = retry_count[o]
    /\ monitor_pc' # monitor_pc =>
          (h_pc' = h_pc /\ retry_count' = retry_count /\ h_exit' = h_exit)

\* start_real_discovery never ends on an exception, and returns only when
\* every task has finished by itself
C11_CoordinatorSurvives ==
    /\ coordinator # "crashed"
    /\ coordinator = "returned" =>
          (monitor_pc # "running" /\ \A e \in Endpoints : h_pc[e] = "exited")

\* C11: an exception raised inside one task (a connection handler or the
\* status monitor) never terminates start_real_discovery or any other task:
\* the failure stays in that task and the others keep running.
C11_ExceptionContained ==
    /\ []C11_CoordinatorSurvives
    /\ [][C11_OneTaskPerStep]_vars

\* C11 witness: the status monitor has failed, one handler has had a
\* connection error of its own, and both handlers connected after the
\* monitor's failure and are reading frames
C11_Witness ==
    /\ monitor_pc = "failed"
    /\ coordinator = "gathering"
    /\ h_after_failure = Endpoints
    /\ \E e \in Endpoints : retry_count[e] > 0
    /\ \A e \in Endpoints : h_pc[e] = "listening"


\* C12: automatic recovery: a handler whose source has not answered 403
\* never gives up: after any number of timeouts, resets or closures it is
\* still in its loop, on its way to the next connection attempt.
C12_RetriesUnbounded ==
    \A e \in Endpoints : e \notin h_forbidden => h_pc[e] # "exited"


\* C13: backoff reset rule: every frame a handler reads resets that
\* handler's failure counter (retry_count) to 0, so that a later failure
\* waits the base delay again and earlier failures no longer count towards
\* max_retries.
C13_FrameResetsFailures ==
    [][h_frames' = h_frames + 1 =>
          \E e \in Endpoints : h_pc[e] = "listening" /\ retry_count'[e] = 0]_vars


\* C14: on a 401 the handler refreshes the credentials and then goes
\* straight back to connecting: once refresh_authentication has returned,
\* the next thing is the loop's next attempt, with no wait in between and no
\* failure counted.
C14_RefreshThenRetryAtOnce ==
    [][\A e \in Endpoints :
          (h_pc[e] = "refreshing" /\ h_pc'[e] # "refreshing")
              => (h_pc'[e] = "loop" /\ retry_count'[e] = retry_count[e])]_vars

\* the latest wait of every handler is the capped power of its failure
\* count, and a sleeping handler is sleeping exactly that long
C19_DelayIsCappedPower ==
    \A e \in Endpoints :
        /\ h_wait[e] <= 60
        /\ h_pc[e] = "sleeping" =>
              /\ retry_count[e] < max_retries
              /\ h_wait[e] = Min(Pow(2, retry_count[e]), 60)

\* neither the failure count nor the wait of a handler ever goes down
C19_DelayStep ==
    \A e \in Endpoints :
        /\ retry_count'[e] >= retry_count[e]
        /\ h_wait'[e] >= h_wait[e]

C21_SendFailureNotRaised ==
    [][\A e \in Endpoints :
          (h_pc[e] = "subscribing" /\ h_pc'[e] # "subscribing")
              => /\ h_pc'[e] = "listening"
                 /\ retry_count'[e] = retry_count[e]
                 /\ e \in ws_connections']_vars

\* C21 witness: a handler is listening on a connection on which a send failed
C21_Witness ==
    \E e \in Endpoints :
        /\ e \in h_sub_errors
        /\ h_pc[e] = "listening"
        /\ e \in ws_connections
        /\ retry_count[e] = 0


(***************************************************************************)
(* Claims about the processing queue (checked under SpecQueue)             *)
(***************************************************************************)
\* C8: a handler whose push finds the shared queue full never blocks
\* indefinitely: it has a step of its own (the push timing out, the frame
\* dropped, a queue-saturated counter incremented) that takes it back to
\* reading, whatever the worker does.
C8_PushNeverBlocks ==
    \A s \in QSources :
        (prod_pc[s] = "putting" /\ Len(processing_queue) = QueueSize)
            => ENABLED ProducerStep(s)

\* C25: after the system is stopped (self.running = False) every handler
\* task and the worker eventually exit after finishing their current frame
\* or item; so no stopped state holds a handler that can never leave its
\* frame: one suspended in put on a full queue that no worker will drain.
C25_StoppedTasksExit ==
    (q_phase = "stopped" /\ worker_pc \in {"exited", "absent"})
        => \A s \in QSources :
              prod_pc[s] = "putting" => ENABLED ProducerStep(s)

(***************************************************************************)
(* Claims about calculate_whale_confidence (checked under SpecScorer)      *)
(***************************************************************************)
\* C10: for every token_data the scorer's result lies in [0, 1] and is the
\* rubric's sum clamped to that interval: 0 when the dev-holding penalty
\* takes the sum below 0, 1 when the bonuses take it above 1, the sum itself
\* in between.
C10_ScoreClamped ==
    sc_pc = "scored" =>
        /\ sc_score >= 0 /\ sc_score <= 1000
        /\ sc_raw < 0 => sc_score = 0
        /\ sc_raw > 1000 => sc_score = 1000
        /\ (sc_raw >= 0 /\ sc_raw <= 1000) => sc_score = sc_raw

\* C10 witness: one call whose sum was below 0 (returned 0) followed by a
\* call whose sum is above 1 (returned 1)
C10_Witness ==
    /\ sc_pc = "scored"
    /\ sc_prev.called /\ sc_prev.raw < 0 /\ sc_prev.score = 0
    /\ sc_raw > 1000 /\ sc_score = 1000

(***************************************************************************)
(* Claims about the read loop (checked under SpecListen)                   *)
(***************************************************************************)
\* parse_real_message never raised into the loop
C9_ParseNeverRaises == l_raised = "none"

\* reading a frame leaves the loop listening
C9_FrameKeepsListening == (Len(l_read') = Len(l_read) + 1) => l_pc' = "listening"

\* C9: message-level isolation: whatever frame is received (non-JSON text,
\* arrays of the wrong arity, fields of the wrong type, room messages
\* without content), parse_real_message returns without raising and the
\* read loop stays on the connection, ready for the next frame.
C9_MessageIsolation ==
    /\ []C9_ParseNeverRaises
    /\ [][C9_FrameKeepsListening]_vars

\* C9 witness: two bad frames were read one after the other, the first one
\* raising inside parse_real_message's dispatch, and the loop still listens
C9_Witness ==
    /\ Len(l_read) = 2
    /\ l_read[1].body = "room_not_string"
    /\ l_read[2] \in BadFrames
    /\ l_pc = "listening"

\* C15: the cooldown forced by an upstream rate-limit signal is 30 seconds
\* on the first signal, grows exponentially (by backoff_multiplier) with
\* each repeated one, and never exceeds 300 seconds.
C15_ViolationCooldown ==
    safe_pc = "cooldown" =>
        safe_wait = Min(min_connection_interval
                            * Pow(backoff_multiplier, consecutive_failures - 1),
                        max_backoff)

\* the rate-limit flag is up only while the strategy sleeps its cooldown
C16_DetectedMeansCooldown ==
    rate_limit_detected =>
        /\ safe_pc = "cooldown"
        /\ ~can_attempt_connection(now, connection_attempts,
                                   last_connection_attempt,
                                   rate_limit_detected).ok

\* while the flag is up no attempt is checked, allowed or made, and the flag
\* comes down only when the cooldown the governor computed has gone by
C16_CooldownStep ==
    rate_limit_detected =>
        /\ attempt_log' = attempt_log
        /\ connect_log' = connect_log
        /\ connection_attempts' = connection_attempts
        /\ ~rate_limit_detected' =>
              now' >= now + handle_rate_limit_response(
                                429, consecutive_failures - 1).backoff_time

DeniedBackoff ==
    /\ safe_pc = "backoff"
    /\ Len(attempt_log) > 0
    /\ ~attempt_log[Len(attempt_log)].allowed

\* C18: when the governor refuses a connection the supervisor backs off for
\* the wait the governor supplied and then tries the same source again.
C18_DeniedSourceRetried ==
    [][(DeniedBackoff /\ safe_pc' # "backoff")
          => /\ safe_pc' = "check"
             /\ safe_idx' = safe_idx
             /\ attempt_log[Len(attempt_log)].reason = "interval"
                   => now' = now + attempt_log[Len(attempt_log)].remaining]_vars

\* C20: an auth message is sent while subscribing only if the governor's
\* auth category allows it: at most 5 auth messages in any sliding 60 s
\* window, and consecutive auth messages at least 120 s apart.
C20_AuthGoverned ==
    /\ \A i \in 1..Len(auth_log) :
          Cardinality({j \in 1..i : auth_log[i] - auth_log[j] < rate_window})
              <= auth_requests_per_minute
    /\ \A i \in 1..(Len(auth_log) - 1) :
          auth_log[i + 1] - auth_log[i] >= min_auth_interval

\* the frames read so far that carry a well-formed token, with the
\* token_data their producer builds
EventsRead ==
    {IF l_read[i].body = "array_30_whale" THEN ArrayToken(l_read[i].body)
     ELSE PairToken(l_read[i].body) :
        i \in {j \in 1..Len(l_read) :
                  l_read[j].body \in {"array_30_whale", "new_pairs_whale",
                                      "new_pairs_mid"}}}

\* C22: the discovery threshold (0.25) alone gates record creation: an
\* unseen wallet gets a record exactly when the event's confidence is at or
\* above the threshold.
C22_ThresholdGatesCreation ==
    \A td \in EventsRead :
        (calculate_whale_confidence(td) >= 250)
            <=> (td.creator_address \in DOMAIN discovered_whales)

\* the two malformed messages of the claim: a positional array of length 5
\* and a new_pairs message whose content lacks a required field
MalformedFrames ==
    {f \in Frames : f.body \in {"array_5", "new_pairs_no_creator"}}

\* C26: malformed isolation: a positional array of length 5 and a new_pairs
\* message whose content lacks the required fields each yield no event:
\* nothing is scored or recorded for them (and the malformed-message counter
\* goes up by one).
C26_MalformedYieldsNoEvent ==
    [][(Len(l_read') = Len(l_read) + 1 /\ l_read'[Len(l_read')] \in MalformedFrames)
          => /\ discovered_whales' = discovered_whales
             /\ metrics' = metrics
             /\ call_log' = call_log]_vars

\* the message of scenario B is the frame being read in this step
ReadsScenarioB ==
    /\ Len(l_read') = Len(l_read) + 1
    /\ l_read'[Len(l_read')].body = "new_pairs_whale"

\* C27: scenario B: the new_pairs message with initial_liquidity_sol 1200,
\* snipers_hold_percent 60, dev_holds_percent 3, lp_burned true and protocol
\* "Raydium CLMM" scores exactly 1.0 after clamping (its sum is 1.1) and is
\* promoted by the same record call that first stores it.
C27_ScenarioB ==
    [][(ReadsScenarioB /\ "W1" \notin DOMAIN discovered_whales)
          => /\ raw_score(PairToken("new_pairs_whale")) = 1100
             /\ "W1" \in DOMAIN discovered_whales'
             /\ discovered_whales'["W1"].confidence_score = 1000
             /\ Len(call_log') = Len(call_log) + 1
             /\ call_log'[Len(call_log')].wallet = "W1"
             /\ call_log'[Len(call_log')].score = 1000
             /\ call_log'[Len(call_log')].created
             /\ call_log'[Len(call_log')].promoted]_vars

\* C27 witness: the message was read on a fresh store, stored with 1.0 and
\* written to the tracked list by that call
C27_Witness ==
    /\ Len(l_read) = 1
    /\ l_read[1].body = "new_pairs_whale"
    /\ Len(call_log) = 1
    /\ call_log[1].score = 1000 /\ call_log[1].created /\ call_log[1].promoted
    /\ tracked_wallets = <<"W1">>
    /\ metrics.auto_added = 1

(***************************************************************************)
(* Claims about final_production_whale_discovery (checked under SpecFinal) *)
(***************************************************************************)
\* C31: every parsed token array whose confidence is at or above 0.25 is
\* passed to discover_final_whale, so that its wallet has a record
\* afterwards: the 0.25 threshold alone decides, whatever the logging test
\* (volume > 1000 or confidence > 0.5) says.
C31_ThresholdAloneDecides ==
    \A i \in 1..Len(fin_log) :
        (fin_log[i].parsed /\ 4 * fin_log[i].confidence >= FinalUnit)
            => /\ fin_log[i].passed
               /\ fin_log[i].wallet \in DOMAIN fin_whales

(***************************************************************************)
(* Claims about python_whale_discovery (checked under SpecPy)              *)
(***************************************************************************)
\* C32: a wallet whose discovered transaction scores at or above
\* auto_add_threshold (0.45) is added to the tracking list by
\* handle_discovered_whale exactly once, however many qualifying
\* transactions arrive for it.
C32_AddedExactlyOnce ==
    \A i \in 1..Len(py_log) :
        py_log[i].score >= auto_add_threshold
            => Cardinality({j \in 1..Len(py_tracked) :
                               py_tracked[j] = py_log[i].wallet}) = 1

\* the transactions of the current batch that reach the discovery threshold
PyDiscoveredInBatch ==
    {i \in 1..Len(py_batch) : py_batch[i].score >= py_discovery_threshold}

\* C37: when a batch has been analysed on the thread pool,
\* metrics['whales_discovered'] has grown by exactly the number of its
\* transactions whose score is at or above discovery_threshold: no
\* increment is lost to the other worker threads.
C37_NoLostIncrement ==
    (py_pc = "idle" /\ py_taken > 0)
        => py_metrics.whales_discovered
               = py_base + Cardinality(PyDiscoveredInBatch)

(***************************************************************************)
(* Claims about axiom_master_trading_system (checked under SpecMaster)     *)
(***************************************************************************)
\* C33: live_signals holds at most 100 entries after any signal handler
\* returns, whichever of the three feeds appended to it and in whatever
\* order their messages interleave.
C33_LiveSignalsBounded == Len(live_signals) <= max_live_signals

\* the new_pairs frames whose content carries no deployer_address
AddressLessFrames ==
    {f \in Frames : f.body \in {"new_pairs_no_creator", "new_pairs_no_creator_mid"}}

\* the frame read in this step is one of them
ReadsAddressLess ==
    /\ Len(l_read') = Len(l_read) + 1
    /\ l_read'[Len(l_read')] \in AddressLessFrames

\* C34: events that carry no creator/deployer address are all keyed by the
\* empty wallet address: once one such event has been recorded, every later
\* address-less event (for any token) is treated as the same wallet, so no
\* second Discovery is created for it and it is never promoted.
C34_AddressLessShareOneWallet ==
    [][ReadsAddressLess
          => /\ Len(call_log') > Len(call_log)
                   => call_log'[Len(call_log')].wallet = ""
             /\ "" \in DOMAIN discovered_whales
                   => /\ DOMAIN discovered_whales' = DOMAIN discovered_whales
                      /\ metrics'.whales_discovered = metrics.whales_discovered
                      /\ metrics'.auto_added = metrics.auto_added
                      /\ tracked_wallets' = tracked_wallets
                      /\ Len(call_log') = Len(call_log) + 1
                      /\ ~call_log'[Len(call_log')].created
                      /\ ~call_log'[Len(call_log')].promoted]_vars

\* C34 witness: an address-less event for one token was recorded with 0.5,
\* then one for another token scoring 1.0 arrived: still one record, under
\* the empty address, and nothing on the tracked list
C34_Witness ==
    /\ Len(l_read) = 2
    /\ l_read[1].body = "new_pairs_no_creator_mid"
    /\ l_read[2].body = "new_pairs_no_creator"
    /\ Len(call_log) = 2
    /\ call_log[1].token = "T2" /\ call_log[1].created
    /\ call_log[2].token = "T1" /\ call_log[2].score = 1000
    /\ ~call_log[2].created /\ ~call_log[2].promoted
    /\ DOMAIN discovered_whales = {""}
    /\ metrics.whales_discovered = 1
    /\ tracked_wallets = << >>

(***************************************************************************)
(* Claims about auto_refresh_trading_system (checked under SpecRefresh)    *)
(***************************************************************************)
\* C35: two consecutive connection attempts to cluster7 are always
\* separated by a non-zero delay: after an attempt fails (any HTTP status
\* or error) or an established connection ends,
\* cluster7_goldmine_with_refresh waits before it connects again.
C35_DelayBetweenAttempts ==
    \A i \in 2..Len(ar_log) : ar_log[i].delay > 0

(***************************************************************************)
(* Claims about shutdown (checked under SpecShutdown)                      *)
(***************************************************************************)
\* C36: shutdown always reaches save_discoveries: closing the open
\* connections completes without raising, for every interleaving with
\* listener tasks that remove their own entry from ws_connections when
\* their connection ends.
C36_ShutdownReachesSave ==
    /\ sd_pc # "raised"
    /\ sd_pc = "complete" => sd_saved

====
